---------------------------- MODULE Spec2Model ----------------------------
(***************************************************************************)
(* Model of the fuzzy record-matching engine of the PO Box matcher.        *)
(*                                                                         *)
(* A JavaScript string is a sequence of characters; a character is a       *)
(* one-character TLA+ string (a CJK ideograph is written "U+4E2D").  A     *)
(* JavaScript number holding a score is an exact rational <<n, d>> in      *)
(* lowest terms; IEEE rounding of the scores is not modelled.              *)
(*                                                                         *)
(* Three variants of the engine live in the repository:                    *)
(*   src/unnamed/part_001  street-number matcher (names without suffix)    *)
(*   src/app/page.tsx      address-prefix matcher (names ending in _page)  *)
(*   src/unnamed/part_000  single-best matcher    (names ending in _p0)    *)
(***************************************************************************)
EXTENDS Integers, Sequences, FiniteSets, TLC

VARIABLES
    csvData,     \* the reference table handed to the engine
    ocrText,     \* the query text handed to the engine
    confidence,  \* the OCR confidence in scope of the call
    called,      \* the engine function that has been applied, "none" before the call
    rowArg,      \* the index in csvData of the row given to a per-row function, else 0
    result,      \* what the call returned
    string1,     \* the first argument of a string function
    string2,     \* the second argument of a string function
    matchResults,     \* React state of the page: the displayed matches
    isProcessingOCR,  \* React state: a capture is being processed
    realTimeOCR,      \* React state: real-time mode is on
    ocrInterval,      \* <<>> or <<c>>: the running interval and the render c its callback closes over
    videoReady,       \* React state: the camera delivers frames
    keyHandler,       \* the render the registered keydown handler closes over
    inFlight,         \* the recognitions awaited, each with what its caller closes over
    isCameraActive,      \* React state: the camera view with the video element is shown
    pendingCameraStart,  \* React state: the camera is to be requested
    cameraStream,        \* React state: TRUE for a MediaStream, FALSE for null
    streamRequests,      \* the calls of getUserMedia awaited
    videoAttached,       \* the video element has the stream and its event handlers
    ocrWorkerRef,        \* ocrWorkerRef.current: "null", or the worker "live" or "terminated"
    workerRequests,      \* the calls of createWorker awaited
    timers               \* the live timers of setInterval, each with its id and its callback's render

stringVars == <<string1, string2>>

pageVars ==
    <<matchResults, isProcessingOCR, realTimeOCR, ocrInterval, videoReady, keyHandler,
      inFlight>>

cameraVars ==
    <<isCameraActive, pendingCameraStart, cameraStream, streamRequests, videoAttached,
      ocrWorkerRef, workerRequests, timers>>

vars ==
    <<csvData, ocrText, confidence, called, rowArg, result, stringVars, pageVars, cameraVars>>

-----------------------------------------------------------------------------
(* Characters and JavaScript string primitives                             *)

Chars(s) == [i \in 1..Len(s) |-> SubSeq(s, i, i)]

LowerLetters == Chars("abcdefghijklmnopqrstuvwxyz")

UpperLetters == Chars("ABCDEFGHIJKLMNOPQRSTUVWXYZ")

Range(f) == {f[i] : i \in DOMAIN f}

DigitChars == {"0", "1", "2", "3", "4", "5", "6", "7", "8", "9"}

CJKChars == {"U+4E2D", "U+6587"}

WhitespaceChars == {" ", "\t", "\n"}

\* \w of a JavaScript regular expression
WordChars == Range(LowerLetters) \cup Range(UpperLetters) \cup DigitChars \cup {"_"}

UpperSet == Range(UpperLetters)

lowerOf == [c \in UpperSet |-> LowerLetters[CHOOSE i \in 1..26 : UpperLetters[i] = c]]

toLowerCaseChar(c) == IF c \in UpperSet THEN lowerOf[c] ELSE c

toLowerCase(s) == [i \in 1..Len(s) |-> toLowerCaseChar(s[i])]

RECURSIVE trimStart(_)
trimStart(s) ==
    IF s # <<>> /\ Head(s) \in WhitespaceChars THEN trimStart(Tail(s)) ELSE s

RECURSIVE trimEnd(_)
trimEnd(s) ==
    IF s # <<>> /\ s[Len(s)] \in WhitespaceChars
    THEN trimEnd(SubSeq(s, 1, Len(s) - 1))
    ELSE s

trim(s) == trimEnd(trimStart(s))

\* s.replace(/\s+/g, rep): every maximal run of whitespace becomes rep
RECURSIVE replaceWhitespaceRuns(_, _)
replaceWhitespaceRuns(s, rep) ==
    IF s = <<>> THEN <<>>
    ELSE IF Head(s) \in WhitespaceChars
         THEN rep \o replaceWhitespaceRuns(trimStart(s), rep)
         ELSE <<Head(s)>> \o replaceWhitespaceRuns(Tail(s), rep)

\* s.replace(/[^...]/g, ''): keep only the characters of the class
keepChars(s, class) == SelectSeq(s, LAMBDA c : c \in class)

\* s.includes(t)
includes(s, t) ==
    \E i \in 0..(Len(s) - Len(t)) : SubSeq(s, i + 1, i + Len(t)) = t

\* s.indexOf(t), 0-based, -1 when absent
indexOf(s, t) ==
    IF includes(s, t)
    THEN CHOOSE i \in 0..(Len(s) - Len(t)) :
            /\ SubSeq(s, i + 1, i + Len(t)) = t
            /\ \A k \in 0..(i - 1) : SubSeq(s, k + 1, k + Len(t)) # t
    ELSE -1

\* s.substring(from, to) for 0 <= from, with to clamped to the length
substring(s, from, to) ==
    LET t == IF to > Len(s) THEN Len(s) ELSE to
        f == IF from > Len(s) THEN Len(s) ELSE from
    IN  IF f <= t THEN SubSeq(s, f + 1, t) ELSE SubSeq(s, t + 1, f)

\* s.split(' ')
RECURSIVE splitOnSpace(_, _, _)
splitOnSpace(s, cur, acc) ==
    IF s = <<>> THEN Append(acc, cur)
    ELSE IF Head(s) = " "
         THEN splitOnSpace(Tail(s), <<>>, Append(acc, cur))
         ELSE splitOnSpace(Tail(s), Append(cur, Head(s)), acc)

split(s) == splitOnSpace(s, <<>>, <<>>)

\* words.join(' ')
RECURSIVE join(_)
join(words) ==
    IF words = <<>> THEN <<>>
    ELSE IF Len(words) = 1 THEN words[1]
    ELSE words[1] \o <<" ">> \o join(Tail(words))

\* s.match(/^\d+/)?.[0] || ''
RECURSIVE leadingDigits(_)
leadingDigits(s) ==
    IF s # <<>> /\ Head(s) \in DigitChars
    THEN <<Head(s)>> \o leadingDigits(Tail(s))
    ELSE <<>>

\* s.replace(/^\d+\s*/, '')
stripLeadingNumber(s) ==
    LET d == leadingDigits(s)
    IN  IF d = <<>> THEN s ELSE trimStart(SubSeq(s, Len(d) + 1, Len(s)))

\* /^\d+$/.test(s)
isAllDigits(s) == s # <<>> /\ \A i \in 1..Len(s) : s[i] \in DigitChars

\* const v = value; return Body(v): the value is computed once, as a JavaScript
\* local is, however often the body reads it
With(value, Body(_)) == CHOOSE w \in { Body(v) : v \in {value} } : TRUE

-----------------------------------------------------------------------------
(* Exact rational arithmetic for the scores                                *)

RECURSIVE GCD(_, _)
GCD(a, b) == IF b = 0 THEN a ELSE GCD(b, a % b)

R(n, d) == LET g == GCD(n, d) IN IF n = 0 THEN <<0, 1>> ELSE <<n \div g, d \div g>>

RAdd(a, b) == R(a[1] * b[2] + b[1] * a[2], a[2] * b[2])

RMul(a, b) == R(a[1] * b[1], a[2] * b[2])

RGe(a, b) == a[1] * b[2] >= b[1] * a[2]

RGt(a, b) == a[1] * b[2] > b[1] * a[2]

RLt(a, b) == a[1] * b[2] < b[1] * a[2]

RMin(a, b) == IF RLt(b, a) THEN b ELSE a

Zero == <<0, 1>>

One == <<1, 1>>

-----------------------------------------------------------------------------
(* Reference records: a CSVRow is a function from field names to strings;  *)
(* a key that is absent from the row reads as undefined.                   *)

hasField(row, f) == f \in DOMAIN row

\* the JavaScript truthiness of row[f]: neither undefined nor ''
truthy(row, f) == hasField(row, f) /\ row[f] # <<>>

-----------------------------------------------------------------------------
(* Street-number matcher, src/unnamed/part_001                             *)

\* one row of the matrix: acc holds matrix[j][0 .. Len(acc) - 1], prev is matrix[j - 1]
RECURSIVE calculateLevenshteinRow(_, _, _, _)
calculateLevenshteinRow(prev, str1, c, acc) ==
    IF Len(acc) = Len(str1) + 1 THEN acc
    ELSE LET i == Len(acc)
             a == prev[i + 1] + 1
             b == acc[i] + 1
             d == prev[i] + 1
             m == IF a <= b /\ a <= d THEN a ELSE IF b <= d THEN b ELSE d
         IN  calculateLevenshteinRow(prev, str1, c,
                                     Append(acc, IF str1[i] = c THEN prev[i] ELSE m))

RECURSIVE calculateLevenshteinRows(_, _, _)
calculateLevenshteinRows(prev, str1, rest) ==
    IF rest = <<>> THEN prev
    ELSE calculateLevenshteinRows(
             calculateLevenshteinRow(prev, str1, Head(rest), <<prev[1] + 1>>),
             str1, Tail(rest))

calculateLevenshteinDistance(str1, str2) ==
    calculateLevenshteinRows([i \in 1..(Len(str1) + 1) |-> i - 1], str1, str2)[Len(str1) + 1]

\* spaced variant: single spaces and hyphens survive
\* the class [\w\s\u4e00-\u9fff-]
spacedClass == WordChars \cup WhitespaceChars \cup CJKChars \cup {"-"}

normalizeString(str) ==
    keepChars(replaceWhitespaceRuns(trim(toLowerCase(str)), <<" ">>), spacedClass)

\* the weighted average of lines 87-98, as similarityOfClean computes it
weightedAverage(cleanStr1, cleanStr2) ==
    LET distance == calculateLevenshteinDistance(cleanStr1, cleanStr2)
        maxLength == IF Len(cleanStr1) >= Len(cleanStr2) THEN Len(cleanStr1) ELSE Len(cleanStr2)
        set1 == Range(cleanStr1)
        set2 == Range(cleanStr2)
    IN  RAdd(RMul(R(maxLength - distance, maxLength), R(7, 10)),
             RMul(R(Cardinality(set1 \cap set2), Cardinality(set1 \cup set2)), R(3, 10)))

\* the rules below the containment rule, as similarityOfClean applies them
prefixOrAverage(cleanStr1, cleanStr2) ==
    IF /\ Len(cleanStr1) >= 2
       /\ Len(cleanStr2) >= 2
       /\ SubSeq(cleanStr1, 1, 2) = SubSeq(cleanStr2, 1, 2) THEN R(7, 10)
    ELSE weightedAverage(cleanStr1, cleanStr2)

\* the edit distance divided by the shorter length in place of the longer
similarityOfClean_minLength(cleanStr1, cleanStr2) ==
    IF cleanStr1 = <<>> \/ cleanStr2 = <<>> THEN Zero
    ELSE IF cleanStr1 = cleanStr2 THEN One
    ELSE IF includes(cleanStr1, cleanStr2) \/ includes(cleanStr2, cleanStr1) THEN R(85, 100)
    ELSE IF /\ Len(cleanStr1) >= 2
            /\ Len(cleanStr2) >= 2
            /\ SubSeq(cleanStr1, 1, 2) = SubSeq(cleanStr2, 1, 2) THEN R(7, 10)
    ELSE LET distance == calculateLevenshteinDistance(cleanStr1, cleanStr2)
             minLength == IF Len(cleanStr1) <= Len(cleanStr2) THEN Len(cleanStr1) ELSE Len(cleanStr2)
             set1 == Range(cleanStr1)
             set2 == Range(cleanStr2)
         IN  RAdd(RMul(R(minLength - distance, minLength), R(7, 10)),
                  RMul(R(Cardinality(set1 \cap set2), Cardinality(set1 \cup set2)), R(3, 10)))

\* the character overlap divided by the characters of the first string only
similarityOfClean_overlapOfFirst(cleanStr1, cleanStr2) ==
    IF cleanStr1 = <<>> \/ cleanStr2 = <<>> THEN Zero
    ELSE IF cleanStr1 = cleanStr2 THEN One
    ELSE IF includes(cleanStr1, cleanStr2) \/ includes(cleanStr2, cleanStr1) THEN R(85, 100)
    ELSE IF /\ Len(cleanStr1) >= 2
            /\ Len(cleanStr2) >= 2
            /\ SubSeq(cleanStr1, 1, 2) = SubSeq(cleanStr2, 1, 2) THEN R(7, 10)
    ELSE LET distance == calculateLevenshteinDistance(cleanStr1, cleanStr2)
             maxLength == IF Len(cleanStr1) >= Len(cleanStr2) THEN Len(cleanStr1) ELSE Len(cleanStr2)
             set1 == Range(cleanStr1)
             set2 == Range(cleanStr2)
         IN  RAdd(RMul(R(maxLength - distance, maxLength), R(7, 10)),
                  RMul(R(Cardinality(set1 \cap set2), Cardinality(set1)), R(3, 10)))

\* without the rule for identical strings
similarityOfClean_noIdentity(cleanStr1, cleanStr2) ==
    IF cleanStr1 = <<>> \/ cleanStr2 = <<>> THEN Zero
    ELSE IF includes(cleanStr1, cleanStr2) \/ includes(cleanStr2, cleanStr1) THEN R(85, 100)
    ELSE prefixOrAverage(cleanStr1, cleanStr2)

\* the rule for identical strings ahead of the test for an empty string
similarityOfClean_identicalFirst(cleanStr1, cleanStr2) ==
    IF cleanStr1 = cleanStr2 THEN One
    ELSE IF cleanStr1 = <<>> \/ cleanStr2 = <<>> THEN Zero
    ELSE IF includes(cleanStr1, cleanStr2) \/ includes(cleanStr2, cleanStr1) THEN R(85, 100)
    ELSE prefixOrAverage(cleanStr1, cleanStr2)

\* containment tested in one direction only
similarityOfClean_oneWayContainment(cleanStr1, cleanStr2) ==
    IF cleanStr1 = <<>> \/ cleanStr2 = <<>> THEN Zero
    ELSE IF cleanStr1 = cleanStr2 THEN One
    ELSE IF includes(cleanStr1, cleanStr2) THEN R(85, 100)
    ELSE prefixOrAverage(cleanStr1, cleanStr2)

\* containment scored 0.85 + 0.1 * shorter.length / longer.length
similarityOfClean_ratioScaled(cleanStr1, cleanStr2) ==
    IF cleanStr1 = <<>> \/ cleanStr2 = <<>> THEN Zero
    ELSE IF cleanStr1 = cleanStr2 THEN One
    ELSE IF includes(cleanStr1, cleanStr2)
         THEN RAdd(R(85, 100), RMul(R(1, 10), R(Len(cleanStr2), Len(cleanStr1))))
    ELSE IF includes(cleanStr2, cleanStr1)
         THEN RAdd(R(85, 100), RMul(R(1, 10), R(Len(cleanStr1), Len(cleanStr2))))
    ELSE prefixOrAverage(cleanStr1, cleanStr2)

\* lines 73-98 of calculateSimilarity, on the two normalized strings
similarityOfClean(cleanStr1, cleanStr2) ==
    IF cleanStr1 = <<>> \/ cleanStr2 = <<>> THEN Zero
    ELSE IF cleanStr1 = cleanStr2 THEN One
    ELSE IF includes(cleanStr1, cleanStr2) \/ includes(cleanStr2, cleanStr1) THEN R(85, 100)
    ELSE IF /\ Len(cleanStr1) >= 2
            /\ Len(cleanStr2) >= 2
            /\ SubSeq(cleanStr1, 1, 2) = SubSeq(cleanStr2, 1, 2) THEN R(7, 10)
    ELSE LET distance == calculateLevenshteinDistance(cleanStr1, cleanStr2)
             maxLength == IF Len(cleanStr1) >= Len(cleanStr2) THEN Len(cleanStr1) ELSE Len(cleanStr2)
             levenshteinSimilarity == R(maxLength - distance, maxLength)
             set1 == Range(cleanStr1)
             set2 == Range(cleanStr2)
             jaccardSimilarity == R(Cardinality(set1 \cap set2), Cardinality(set1 \cup set2))
         IN  RAdd(RMul(levenshteinSimilarity, R(7, 10)), RMul(jaccardSimilarity, R(3, 10)))

calculateSimilarity(str1, str2) ==
    similarityOfClean(normalizeString(str1), normalizeString(str2))

\* the loop of findBestSubstring: the first i whose preceding characters,
\* normalized one by one, contribute startIndex characters, or 0 without a break
RECURSIVE originalStartIndex(_, _, _, _)
originalStartIndex(text, startIndex, i, normalizedIndex) ==
    IF i >= Len(text) THEN 0
    ELSE IF normalizedIndex = startIndex THEN i
    ELSE originalStartIndex(text, startIndex, i + 1,
             normalizedIndex + Len(normalizeString(<<text[i + 1]>>)))

findBestSubstring(text, target) ==
    LET normalizedText == normalizeString(text)
        normalizedTarget == normalizeString(target)
    IN  IF includes(normalizedText, normalizedTarget)
        THEN LET startIndex == indexOf(normalizedText, normalizedTarget)
                 start == originalStartIndex(text, startIndex, 0, 0)
             IN  substring(text, start, start + Len(normalizedTarget))
        ELSE <<>>

suffixes ==
    { Chars(w) : w \in
        {"road", "rd", "street", "st", "avenue", "ave", "drive", "dr",
         "lane", "ln", "way", "close", "court", "ct", "place", "pl",
         "crescent", "cres", "terrace", "tce", "circuit", "cct",
         "boulevard", "blvd", "highway", "hwy", "esplanade", "esp",
         "parade", "pde", "grove", "gr", "walk", "gardens", "gdns"} }

\* the words without every street-type word at their end
RECURSIVE withoutTrailingSuffixes(_)
withoutTrailingSuffixes(words) ==
    IF Len(words) > 1 /\ words[Len(words)] \in suffixes
    THEN withoutTrailingSuffixes(SubSeq(words, 1, Len(words) - 1))
    ELSE words

\* stripping repeated while the last word is a street-type word
removeAddressSuffixes_repeated(address) ==
    IF address = <<>> THEN <<>>
    ELSE LET normalized == normalizeString(address)
             words == SelectSeq(split(normalized), LAMBDA w : Len(w) > 0)
         IN  IF Len(words) > 1 /\ words[Len(words)] \in suffixes
             THEN join(withoutTrailingSuffixes(words))
             ELSE normalized

removeAddressSuffixes(address) ==
    IF address = <<>> THEN <<>>
    ELSE LET normalized == normalizeString(address)
             words == SelectSeq(split(normalized), LAMBDA w : Len(w) > 0)
         IN  IF Len(words) > 1 /\ words[Len(words)] \in suffixes
             THEN join(SubSeq(words, 1, Len(words) - 1))
             ELSE normalized

\* const ocrNumbers = ocrText.match(/^\d+/)?.[0] || ''
ocrNumbers(text) == leadingDigits(text)

\* const ocrAddressPart = ocrText.replace(/^\d+\s*/, '').trim()
ocrAddressPart(text) == trim(stripLeadingNumber(text))

csvFullAddress(csvRow) ==
    IF truthy(csvRow, "streetNumber")
    THEN trim(csvRow.streetNumber \o <<" ">> \o csvRow.address)
    ELSE csvRow.address

csvStreetNumber(csvRow) ==
    IF truthy(csvRow, "streetNumber") THEN trim(csvRow.streetNumber) ELSE <<>>

\* the test /^\d$/ in place of /^\d+$/
isCSVNumberDigit_oneDigit(csvRow) ==
    Len(csvStreetNumber(csvRow)) = 1 /\ isAllDigits(csvStreetNumber(csvRow))

isCSVNumberDigit(csvRow) == isAllDigits(csvStreetNumber(csvRow))

\* the prefix compared with the first word of the text, whatever its length
numberMatchScore_firstWord(text, csvRow) ==
    LET ocrNum == ocrNumbers(text)
        csvNum == csvStreetNumber(csvRow)
        isDigit == isCSVNumberDigit(csvRow)
    IN  IF ocrNum # <<>> /\ csvNum # <<>> /\ isDigit
        THEN IF ocrNum = csvNum THEN One ELSE R(1, 10)
        ELSE IF ocrNum # <<>> /\ csvNum # <<>> /\ ~isDigit
        THEN R(7, 10)
        ELSE IF ocrNum = <<>> /\ csvNum # <<>> /\ ~isDigit
        THEN LET ocrNormalized == normalizeString(text)
                 csvStreetNormalized == normalizeString(csvNum)
                 ocrWords == SelectSeq(split(ocrNormalized), LAMBDA w : Len(w) >= 1)
                 ocrStartsWithPrefix ==
                     /\ Len(ocrWords) > 0
                     /\ RGe(calculateSimilarity(ocrWords[1], csvStreetNormalized), R(8, 10))
             IN  IF ocrStartsWithPrefix THEN R(95, 100)
                 ELSE IF \/ includes(ocrNormalized, csvStreetNormalized)
                         \/ includes(csvStreetNormalized, ocrNormalized)
                 THEN R(8, 10)
                 ELSE R(4, 10)
        ELSE IF ocrNum = <<>> /\ csvNum = <<>>
        THEN One
        ELSE IF ocrNum # <<>> /\ csvNum = <<>>
        THEN R(5, 10)
        ELSE R(3, 10)

\* 3. street number / street prefix score
numberMatchScore(text, csvRow) ==
    LET ocrNum == ocrNumbers(text)
        csvNum == csvStreetNumber(csvRow)
        isDigit == isCSVNumberDigit(csvRow)
    IN  IF ocrNum # <<>> /\ csvNum # <<>> /\ isDigit
        THEN IF ocrNum = csvNum THEN One ELSE R(1, 10)
        ELSE IF ocrNum # <<>> /\ csvNum # <<>> /\ ~isDigit
        THEN R(7, 10)
        ELSE IF ocrNum = <<>> /\ csvNum # <<>> /\ ~isDigit
        THEN LET ocrNormalized == normalizeString(text)
                 csvStreetNormalized == normalizeString(csvNum)
                 ocrWords == SelectSeq(split(ocrNormalized), LAMBDA w : Len(w) >= 2)
                 ocrStartsWithPrefix ==
                     /\ Len(ocrWords) > 0
                     /\ RGe(calculateSimilarity(ocrWords[1], csvStreetNormalized), R(8, 10))
             IN  IF ocrStartsWithPrefix THEN R(95, 100)
                 ELSE IF \/ includes(ocrNormalized, csvStreetNormalized)
                         \/ includes(csvStreetNormalized, ocrNormalized)
                 THEN R(8, 10)
                 ELSE R(4, 10)
        ELSE IF ocrNum = <<>> /\ csvNum = <<>>
        THEN One
        ELSE IF ocrNum # <<>> /\ csvNum = <<>>
        THEN R(5, 10)
        ELSE R(3, 10)

\* the consecutive two-word sequences of the OCR words that match one of the record
sequenceBonus(ocrWords, csvWords) ==
    LET pairs == { <<i, j>> \in (1..(Len(ocrWords) - 1)) \X (1..(Len(csvWords) - 1)) :
                     RGe(calculateSimilarity(ocrWords[i] \o <<" ">> \o ocrWords[i + 1],
                                             csvWords[j] \o <<" ">> \o csvWords[j + 1]),
                         R(9, 10)) }
    IN  R(3 * Cardinality(pairs), 10)

\* the OCR words with a record word of similarity >= 0.8
matchedWords(ocrWords, csvWords) ==
    Cardinality({ i \in 1..Len(ocrWords) :
                    \E j \in 1..Len(csvWords) :
                        RGe(calculateSimilarity(ocrWords[i], csvWords[j]), R(8, 10)) })

\* the word score without its cap Math.min(0.95, ...)
addressMatchScore_uncapped(text, csvRow) ==
    LET part == ocrAddressPart(text)
        addressToMatch == IF part # <<>> THEN part ELSE text
    IN  IF addressToMatch = <<>> \/ ~truthy(csvRow, "address") THEN Zero
        ELSE LET ocrAddressFiltered == removeAddressSuffixes(addressToMatch)
                 csvAddressFiltered == removeAddressSuffixes(csvRow.address)
             IN  IF includes(csvAddressFiltered, ocrAddressFiltered) THEN R(95, 100)
                 ELSE IF includes(ocrAddressFiltered, csvAddressFiltered) THEN R(9, 10)
                 ELSE LET ocrWords == SelectSeq(split(ocrAddressFiltered), LAMBDA w : Len(w) >= 2)
                          csvWords == SelectSeq(split(csvAddressFiltered), LAMBDA w : Len(w) >= 2)
                          baseScore == RMul(R(matchedWords(ocrWords, csvWords), Len(ocrWords)),
                                            R(85, 100))
                          wordScore ==
                              IF Len(ocrWords) > 0
                              THEN RAdd(baseScore, sequenceBonus(ocrWords, csvWords))
                              ELSE Zero
                          backupScore ==
                              RMul(calculateSimilarity(normalizeString(addressToMatch),
                                                       normalizeString(csvRow.address)),
                                   R(7, 10))
                      IN  IF RLt(wordScore, R(6, 10)) /\ RGt(backupScore, wordScore)
                          THEN backupScore
                          ELSE wordScore

\* 4. address name score, on the addresses without their suffix word
addressMatchScore(text, csvRow) ==
    LET part == ocrAddressPart(text)
        addressToMatch == IF part # <<>> THEN part ELSE text
    IN  IF addressToMatch = <<>> \/ ~truthy(csvRow, "address") THEN Zero
        ELSE LET ocrAddressFiltered == removeAddressSuffixes(addressToMatch)
                 csvAddressFiltered == removeAddressSuffixes(csvRow.address)
             IN  IF includes(csvAddressFiltered, ocrAddressFiltered) THEN R(95, 100)
                 ELSE IF includes(ocrAddressFiltered, csvAddressFiltered) THEN R(9, 10)
                 ELSE LET ocrWords == SelectSeq(split(ocrAddressFiltered), LAMBDA w : Len(w) >= 2)
                          csvWords == SelectSeq(split(csvAddressFiltered), LAMBDA w : Len(w) >= 2)
                          baseScore == RMul(R(matchedWords(ocrWords, csvWords), Len(ocrWords)),
                                            R(85, 100))
                          wordScore ==
                              IF Len(ocrWords) > 0
                              THEN RMin(R(95, 100),
                                        RAdd(baseScore, sequenceBonus(ocrWords, csvWords)))
                              ELSE Zero
                          backupScore ==
                              RMul(calculateSimilarity(normalizeString(addressToMatch),
                                                       normalizeString(csvRow.address)),
                                   R(7, 10))
                      IN  IF RLt(wordScore, R(6, 10)) /\ RGt(backupScore, wordScore)
                          THEN backupScore
                          ELSE wordScore

\* 5. whole-string score
fullMatchScore(text, csvRow) ==
    LET ocrNormalized == normalizeString(text)
        csvFullAddressNormalized == normalizeString(csvFullAddress(csvRow))
    IN  IF ocrNormalized = <<>> \/ csvFullAddressNormalized = <<>> THEN Zero
        ELSE IF includes(csvFullAddressNormalized, ocrNormalized) THEN R(95, 100)
        ELSE IF includes(ocrNormalized, csvFullAddressNormalized) THEN R(9, 10)
        ELSE RMul(calculateSimilarity(ocrNormalized, csvFullAddressNormalized), R(8, 10))

\* the weights of number and address exchanged
compositeScore_weightsExchanged(numberScore, addressScore, fullScore) ==
    RAdd(RAdd(RMul(numberScore, R(5, 10)), RMul(addressScore, R(4, 10))),
         RMul(fullScore, R(1, 10)))

\* 6. weights = { number: 0.4, address: 0.5, fullMatch: 0.1 }
compositeScore(numberScore, addressScore, fullScore) ==
    RAdd(RAdd(RMul(numberScore, R(4, 10)), RMul(addressScore, R(5, 10))),
         RMul(fullScore, R(1, 10)))

\* the decision without the comparison of the two numbers
isValidMatch_numberIgnored(text, csvRow, numberScore, addressScore, fullScore, bestSimilarity) ==
    LET ocrNum == ocrNumbers(text)
        csvNum == csvStreetNumber(csvRow)
        hasOcrNumber == ocrNum # <<>>
        hasCsvStreetNumber == csvNum # <<>>
        isDigit == isCSVNumberDigit(csvRow)
        byCase ==
            IF hasOcrNumber /\ hasCsvStreetNumber /\ isDigit
            THEN RGe(addressScore, R(7, 10))
            ELSE IF hasOcrNumber /\ hasCsvStreetNumber /\ ~isDigit
            THEN RGe(addressScore, R(8, 10))
            ELSE IF ~hasOcrNumber /\ hasCsvStreetNumber /\ ~isDigit
            THEN \/ RGe(numberScore, R(8, 10)) /\ RGe(addressScore, R(7, 10))
                 \/ RGe(addressScore, R(85, 100))
            ELSE IF ~hasOcrNumber /\ ~hasCsvStreetNumber
            THEN RGe(addressScore, R(85, 100)) \/ RGe(fullScore, R(8, 10))
            ELSE RGe(bestSimilarity, R(7, 10)) \/ RGe(addressScore, R(9, 10))
    IN  byCase \/ RGe(bestSimilarity, R(75, 100))

\* the decision with equal numbers enough in the numeric case
isValidMatch_numberOnly(text, csvRow, numberScore, addressScore, fullScore, bestSimilarity) ==
    LET ocrNum == ocrNumbers(text)
        csvNum == csvStreetNumber(csvRow)
        hasOcrNumber == ocrNum # <<>>
        hasCsvStreetNumber == csvNum # <<>>
        isDigit == isCSVNumberDigit(csvRow)
        byCase ==
            IF hasOcrNumber /\ hasCsvStreetNumber /\ isDigit
            THEN ocrNum = csvNum
            ELSE IF hasOcrNumber /\ hasCsvStreetNumber /\ ~isDigit
            THEN RGe(addressScore, R(8, 10))
            ELSE IF ~hasOcrNumber /\ hasCsvStreetNumber /\ ~isDigit
            THEN \/ RGe(numberScore, R(8, 10)) /\ RGe(addressScore, R(7, 10))
                 \/ RGe(addressScore, R(85, 100))
            ELSE IF ~hasOcrNumber /\ ~hasCsvStreetNumber
            THEN RGe(addressScore, R(85, 100)) \/ RGe(fullScore, R(8, 10))
            ELSE RGe(bestSimilarity, R(7, 10)) \/ RGe(addressScore, R(9, 10))
    IN  byCase \/ RGe(bestSimilarity, R(75, 100))

\* 7. the accept / reject decision
isValidMatch(text, csvRow, numberScore, addressScore, fullScore, bestSimilarity) ==
    LET ocrNum == ocrNumbers(text)
        csvNum == csvStreetNumber(csvRow)
        hasOcrNumber == ocrNum # <<>>
        hasCsvStreetNumber == csvNum # <<>>
        isDigit == isCSVNumberDigit(csvRow)
        byCase ==
            IF hasOcrNumber /\ hasCsvStreetNumber /\ isDigit
            THEN ocrNum = csvNum /\ RGe(addressScore, R(7, 10))
            ELSE IF hasOcrNumber /\ hasCsvStreetNumber /\ ~isDigit
            THEN RGe(addressScore, R(8, 10))
            ELSE IF ~hasOcrNumber /\ hasCsvStreetNumber /\ ~isDigit
            THEN \/ RGe(numberScore, R(8, 10)) /\ RGe(addressScore, R(7, 10))
                 \/ RGe(addressScore, R(85, 100))
            ELSE IF ~hasOcrNumber /\ ~hasCsvStreetNumber
            THEN RGe(addressScore, R(85, 100)) \/ RGe(fullScore, R(8, 10))
            ELSE RGe(bestSimilarity, R(7, 10)) \/ RGe(addressScore, R(9, 10))
    IN  byCase \/ RGe(bestSimilarity, R(75, 100))

\* every local of findBestMatch that a caller or a property may want to see
findBestMatchScores(text, csvRow) ==
    With(<<numberMatchScore(text, csvRow),
           addressMatchScore(text, csvRow),
           fullMatchScore(text, csvRow)>>,
         LAMBDA sc :
           With(compositeScore(sc[1], sc[2], sc[3]),
                LAMBDA best :
                  [numberMatchScore |-> sc[1],
                   addressMatchScore |-> sc[2],
                   fullMatchScore |-> sc[3],
                   bestSimilarity |-> best,
                   isValidMatch |-> isValidMatch(text, csvRow, sc[1], sc[2], sc[3], best)]))

\* the address check "=== undefined" in place of "!csvRow.address"
findBestMatch_emptyAddressScored(text, csvRow) ==
    IF ~hasField(csvRow, "address")
    THEN [similarity |-> Zero, matchedFields |-> <<>>, matchedSegment |-> <<>>]
    ELSE With(findBestMatchScores(text, csvRow),
              LAMBDA s :
                [similarity |-> s.bestSimilarity,
                 matchedFields |-> IF s.isValidMatch THEN <<"streetAddress">> ELSE <<>>,
                 matchedSegment |-> IF s.isValidMatch THEN text ELSE <<>>])

\* matchedSegment = ocrAddressPart in place of ocrText
findBestMatch_addressPartSegment(text, csvRow) ==
    IF ~truthy(csvRow, "address")
    THEN [similarity |-> Zero, matchedFields |-> <<>>, matchedSegment |-> <<>>]
    ELSE With(findBestMatchScores(text, csvRow),
              LAMBDA s :
                [similarity |-> s.bestSimilarity,
                 matchedFields |-> IF s.isValidMatch THEN <<"streetAddress">> ELSE <<>>,
                 matchedSegment |-> IF s.isValidMatch THEN ocrAddressPart(text) ELSE <<>>])

findBestMatch(text, csvRow) ==
    IF ~truthy(csvRow, "address")
    THEN [similarity |-> Zero, matchedFields |-> <<>>, matchedSegment |-> <<>>]
    ELSE With(findBestMatchScores(text, csvRow),
              LAMBDA s :
                [similarity |-> s.bestSimilarity,
                 matchedFields |-> IF s.isValidMatch THEN <<"streetAddress">> ELSE <<>>,
                 matchedSegment |-> IF s.isValidMatch THEN text ELSE <<>>])

\* the MatchResult pushed for one accepted row; rowIndex stands for the identity
\* of the row object, which two rows of equal content do not share
matchResultOf(rows, i, m, text, conf) ==
    [row |-> rows[i],
     rowIndex |-> i,
     matchedFields |-> m.matchedFields,
     confidence |-> conf,
     similarity |-> m.similarity,
     ocrText |-> text,
     matchedSegment |-> m.matchedSegment]

\* a sort that puts an element before the elements equal to it
RECURSIVE insertBySimilarity_unstable(_, _)
insertBySimilarity_unstable(sorted, m) ==
    IF sorted = <<>> THEN <<m>>
    ELSE IF RGt(Head(sorted).similarity, m.similarity)
         THEN <<Head(sorted)>> \o insertBySimilarity_unstable(Tail(sorted), m)
         ELSE <<m>> \o sorted

\* matches.sort((a, b) => b.similarity - a.similarity): Array.prototype.sort is
\* stable, so an element goes behind every element that is not smaller
RECURSIVE insertBySimilarity(_, _)
insertBySimilarity(sorted, m) ==
    IF sorted = <<>> THEN <<m>>
    ELSE IF RGe(Head(sorted).similarity, m.similarity)
         THEN <<Head(sorted)>> \o insertBySimilarity(Tail(sorted), m)
         ELSE <<m>> \o sorted

RECURSIVE sortBySimilarity(_)
sortBySimilarity(matches) ==
    IF matches = <<>> THEN <<>>
    ELSE insertBySimilarity(sortBySimilarity(SubSeq(matches, 1, Len(matches) - 1)),
                            matches[Len(matches)])

\* array.slice(0, n + 1)
slice_oneMore(array, n) == SubSeq(array, 1, IF Len(array) < n + 1 THEN Len(array) ELSE n + 1)

\* array.slice(0, n)
slice(array, n) == SubSeq(array, 1, IF Len(array) < n THEN Len(array) ELSE n)

MaxResults == 8

\* the rows kept by the forEach of findMatches, in table order
RECURSIVE collectMatches(_, _, _, _)
collectMatches(text, rows, conf, i) ==
    IF i > Len(rows) THEN <<>>
    ELSE With(findBestMatch(text, rows[i]),
              LAMBDA matchResult :
                IF Len(matchResult.matchedFields) > 0
                THEN <<matchResultOf(rows, i, matchResult, text, conf)>>
                ELSE <<>>)
         \o collectMatches(text, rows, conf, i + 1)

findMatches(text, rows, conf) ==
    slice(sortBySimilarity(collectMatches(text, rows, conf, 1)), MaxResults)

-----------------------------------------------------------------------------
(* Address-prefix matcher, src/app/page.tsx                                *)

\* the class [\w\u4e00-\u9fff]
compactClass == WordChars \cup CJKChars

\* compact variant: no whitespace survives
normalizeString_page(str) ==
    keepChars(replaceWhitespaceRuns(trim(toLowerCase(str)), <<>>), compactClass)

calculateSimilarity_page(str1, str2) ==
    similarityOfClean(normalizeString_page(str1), normalizeString_page(str2))

\* the loop that maps an offset of the normalized text back to the original text:
\* the first i whose preceding characters contribute startIndex normalized
\* characters, or 0 when the loop ends without a break
RECURSIVE originalStartIndex_page(_, _, _, _)
originalStartIndex_page(text, startIndex, i, normalizedIndex) ==
    IF i >= Len(text) THEN 0
    ELSE IF normalizedIndex = startIndex THEN i
    ELSE originalStartIndex_page(text, startIndex, i + 1,
             normalizedIndex + Len(normalizeString_page(<<text[i + 1]>>)))

findBestSubstring_page(text, target) ==
    LET normalizedText == normalizeString_page(text)
        normalizedTarget == normalizeString_page(target)
    IN  IF includes(normalizedText, normalizedTarget)
        THEN LET startIndex == indexOf(normalizedText, normalizedTarget)
                 start == originalStartIndex_page(text, startIndex, 0, 0)
             IN  substring(text, start, start + Len(normalizedTarget))
        ELSE <<>>

PrefixLength == 8

SegmentLength == 50

findBestMatch_page(text, csvRow) ==
    IF ~truthy(csvRow, "address")
    THEN [similarity |-> Zero, matchedFields |-> <<>>, matchedSegment |-> <<>>]
    ELSE LET csvAddressPrefix == substring(normalizeString_page(csvRow.address), 0, PrefixLength)
             ocrNormalized == normalizeString_page(text)
             contained == includes(ocrNormalized, csvAddressPrefix)
             addressPrefixSimilarity ==
                 IF Len(csvAddressPrefix) = 0 THEN Zero
                 ELSE IF contained THEN R(9, 10)
                 ELSE calculateSimilarity_page(ocrNormalized, csvAddressPrefix)
             minLength == IF Len(ocrNormalized) < Len(csvAddressPrefix)
                          THEN Len(ocrNormalized) ELSE Len(csvAddressPrefix)
             actualMatchLength ==
                 IF Len(csvAddressPrefix) = 0 THEN 0
                 ELSE IF contained THEN Len(csvAddressPrefix)
                 ELSE Cardinality({i \in 1..minLength : ocrNormalized[i] = csvAddressPrefix[i]})
             segment ==
                 IF Len(csvAddressPrefix) = 0 THEN <<>>
                 ELSE IF contained
                 THEN LET start == originalStartIndex_page(text,
                                       indexOf(ocrNormalized, csvAddressPrefix), 0, 0)
                      IN  substring(text, start, start + Len(csvAddressPrefix))
                 ELSE IF RGt(addressPrefixSimilarity, R(85, 100))
                 THEN findBestSubstring_page(text, csvAddressPrefix)
                 ELSE <<>>
         IN  [similarity |-> addressPrefixSimilarity,
              matchedFields |->
                  IF RGe(addressPrefixSimilarity, R(85, 100)) /\ actualMatchLength > 3
                  THEN <<"address">> ELSE <<>>,
              matchedSegment |->
                  IF segment = <<>> /\ RGt(addressPrefixSimilarity, R(8, 10))
                  THEN trim(substring(text, 0, IF SegmentLength < Len(text)
                                               THEN SegmentLength ELSE Len(text)))
                  ELSE segment]

RECURSIVE collectMatches_page(_, _, _, _)
collectMatches_page(text, rows, conf, i) ==
    IF i > Len(rows) THEN <<>>
    ELSE With(findBestMatch_page(text, rows[i]),
              LAMBDA matchResult :
                IF RGe(matchResult.similarity, R(85, 100))
                THEN <<matchResultOf(rows, i, matchResult, text, conf)>>
                ELSE <<>>)
         \o collectMatches_page(text, rows, conf, i + 1)

findMatches_page(text, rows, conf) ==
    slice(sortBySimilarity(collectMatches_page(text, rows, conf, 1)), MaxResults)

-----------------------------------------------------------------------------
(* Single-best matcher, src/unnamed/part_000                               *)

normalizeString_p0(str) ==
    keepChars(replaceWhitespaceRuns(trim(toLowerCase(str)), <<>>), compactClass)

calculateSimilarity_p0(str1, str2) ==
    similarityOfClean(normalizeString_p0(str1), normalizeString_p0(str2))

RECURSIVE originalStartIndex_p0(_, _, _, _)
originalStartIndex_p0(text, startIndex, i, normalizedIndex) ==
    IF i >= Len(text) THEN 0
    ELSE IF normalizedIndex = startIndex THEN i
    ELSE originalStartIndex_p0(text, startIndex, i + 1,
             normalizedIndex + Len(normalizeString_p0(<<text[i + 1]>>)))

findBestSubstring_p0(text, target) ==
    LET normalizedText == normalizeString_p0(text)
        normalizedTarget == normalizeString_p0(target)
    IN  IF includes(normalizedText, normalizedTarget)
        THEN LET startIndex == indexOf(normalizedText, normalizedTarget)
                 start == originalStartIndex_p0(text, startIndex, 0, 0)
             IN  substring(text, start, start + Len(normalizedTarget))
        ELSE <<>>

\* the key order of Object.entries(row): the order of the header row
fieldOrder == <<"name", "address", "email", "streetNumber", "suburb">>

entries(row) == SelectSeq(fieldOrder, LAMBDA f : f \in DOMAIN row)

\* the fields of one row with a non-blank value and a similarity above 0.3
matchedFields_p0(text, row) ==
    SelectSeq(entries(row),
              LAMBDA f : /\ trim(row[f]) # <<>>
                         /\ RGt(calculateSimilarity_p0(text, row[f]), R(3, 10)))

RECURSIVE totalSimilarity_p0(_, _, _)
totalSimilarity_p0(text, row, fields) ==
    IF fields = <<>> THEN Zero
    ELSE RAdd(calculateSimilarity_p0(text, row[Head(fields)]),
              totalSimilarity_p0(text, row, Tail(fields)))

\* the candidate MatchResult of one row, <<>> when no field matched
candidate_p0(text, row) ==
    LET matchedFields == matchedFields_p0(text, row)
        fieldCount == Len(matchedFields)
        averageSimilarity == RMul(totalSimilarity_p0(text, row, matchedFields), R(1, fieldCount))
        conf == RAdd(RMul(averageSimilarity, R(7, 10)),
                     RMul(R(fieldCount, Cardinality(DOMAIN row)), R(3, 10)))
        addressSegment ==
            IF /\ \E k \in 1..fieldCount : matchedFields[k] = "address"
               /\ RGt(calculateSimilarity_p0(text, row.address), R(5, 10))
            THEN findBestSubstring_p0(text, row.address)
            ELSE <<>>
        fallbackTarget ==
            IF truthy(row, "address") THEN row.address
            ELSE IF truthy(row, "name") THEN row.name
            ELSE <<>>
    IN  IF fieldCount = 0 THEN <<>>
        ELSE <<[row |-> row,
                matchedFields |-> matchedFields,
                confidence |-> conf,
                similarity |-> averageSimilarity,
                ocrText |-> text,
                matchedSegment |-> IF addressSegment # <<>> THEN addressSegment
                                   ELSE findBestSubstring_p0(text, fallbackTarget)]>>

\* the loop over the rows: a later row replaces the best one only when strictly better
RECURSIVE bestOfRows_p0(_, _, _, _)
bestOfRows_p0(text, rows, i, bestMatch) ==
    IF i > Len(rows) THEN bestMatch
    ELSE With(<<candidate_p0(text, rows[i]), bestMatch>>,
              LAMBDA v :
                bestOfRows_p0(text, rows, i + 1,
                    IF /\ v[1] # <<>>
                       /\ RGt(v[1][1].confidence,
                              IF v[2] = <<>> THEN Zero ELSE v[2][1].confidence)
                    THEN v[1] ELSE v[2]))

\* bestMatch starting as an empty MatchResult in place of null
findBestMatch_p0_placeholder(text, rows) ==
    IF trim(text) = <<>> THEN <<>>
    ELSE bestOfRows_p0(text, rows, 1,
                       <<[row |-> <<>>, matchedFields |-> <<>>, confidence |-> Zero,
                          similarity |-> Zero, ocrText |-> text, matchedSegment |-> <<>>]>>)

\* MatchResult | null: <<m>> or <<>>
findBestMatch_p0(text, rows) ==
    IF trim(text) = <<>> \/ Len(rows) = 0 THEN <<>>
    ELSE bestOfRows_p0(text, rows, 1, <<>>)

-----------------------------------------------------------------------------
(* The inputs the engine is applied to                                     *)

\* the variables of the page while only a function is applied
cameraUnused ==
    /\ isCameraActive = FALSE
    /\ pendingCameraStart = FALSE
    /\ cameraStream = FALSE
    /\ streamRequests = 0
    /\ videoAttached = FALSE
    /\ ocrWorkerRef = "null"
    /\ workerRequests = 0
    /\ timers = {}

pageUnused ==
    /\ matchResults = <<>>
    /\ isProcessingOCR = FALSE
    /\ realTimeOCR = FALSE
    /\ ocrInterval = <<>>
    /\ videoReady = FALSE
    /\ keyHandler = <<>>
    /\ inFlight = <<>>
    /\ cameraUnused

MaxTextWords == 2

MaxRows == 14

TextTokens == { Chars(w) : w \in {"34", "12", "Main", "mian", "rd", "glen", "#"} }

RECURSIVE tokenSequences(_)
tokenSequences(n) ==
    IF n = 0 THEN {<<>>}
    ELSE LET shorter == tokenSequences(n - 1)
         IN  shorter \cup { Append(ws, t) : ws \in {x \in shorter : Len(x) = n - 1},
                                             t \in TextTokens }

\* the token sequences joined by single spaces, and a blank text
QueryTexts == { join(ws) : ws \in tokenSequences(MaxTextWords) } \cup {<<" ">>}

Addresses == { Chars(w) : w \in {"", "Main rd", "Main", "RD", "glen Main"} }

StreetNumbers == { Chars(w) : w \in {"", "34", "glen"} }

Records ==
    { [address |-> a, streetNumber |-> n] : a \in Addresses, n \in StreetNumbers }
    \cup { [address |-> a] : a \in Addresses }
    \cup { [streetNumber |-> n] : n \in StreetNumbers }

\* a table whose rows repeat: a row without address, rows that the text
\* "34 Main rd" matches with different and with equal scores, and a row whose
\* street number it contradicts
tableCycle ==
    << [streetNumber |-> Chars("34")],
       [address |-> Chars("Main rd")],
       [address |-> Chars("Main rd"), streetNumber |-> Chars("34")],
       [address |-> Chars("Main"), streetNumber |-> Chars("34")],
       [address |-> Chars("Main rd"), streetNumber |-> Chars("12")],
       [address |-> Chars("Main rd"), streetNumber |-> Chars("glen")] >>

longTable(n) == [i \in 1..n |-> tableCycle[((i - 1) % Len(tableCycle)) + 1]]

Tables == {<<>>} \cup { <<r>> : r \in Records } \cup { longTable(n) : n \in {2, MaxRows} }

Confidences == {87}

-----------------------------------------------------------------------------
(* The engine as a state machine: the inputs are drawn, then one function  *)
(* of one variant is applied to them.                                      *)

Init ==
    /\ csvData \in Tables
    /\ ocrText \in QueryTexts
    /\ confidence \in Confidences
    /\ called = "none"
    /\ rowArg = 0
    /\ result = <<>>
    /\ string1 = <<>>
    /\ string2 = <<>>
    /\ pageUnused

FindBestMatch(i) ==
    /\ called = "none"
    /\ called' = "findBestMatch"
    /\ rowArg' = i
    /\ result' = findBestMatch(ocrText, csvData[i])
    /\ UNCHANGED <<csvData, ocrText, confidence, stringVars, pageVars, cameraVars>>

FindMatches ==
    /\ called = "none"
    /\ called' = "findMatches"
    /\ result' = findMatches(ocrText, csvData, confidence)
    /\ UNCHANGED <<csvData, ocrText, confidence, rowArg, stringVars, pageVars, cameraVars>>

FindBestMatch_page(i) ==
    /\ called = "none"
    /\ called' = "findBestMatch_page"
    /\ rowArg' = i
    /\ result' = findBestMatch_page(ocrText, csvData[i])
    /\ UNCHANGED <<csvData, ocrText, confidence, stringVars, pageVars, cameraVars>>

FindMatches_page ==
    /\ called = "none"
    /\ called' = "findMatches_page"
    /\ result' = findMatches_page(ocrText, csvData, confidence)
    /\ UNCHANGED <<csvData, ocrText, confidence, rowArg, stringVars, pageVars, cameraVars>>

FindBestMatch_p0 ==
    /\ called = "none"
    /\ called' = "findBestMatch_p0"
    /\ result' = findBestMatch_p0(ocrText, csvData)
    /\ UNCHANGED <<csvData, ocrText, confidence, rowArg, stringVars, pageVars, cameraVars>>

Next ==
    \/ \E i \in 1..Len(csvData) : FindBestMatch(i)
    \/ FindMatches
    \/ \E i \in 1..Len(csvData) : FindBestMatch_page(i)
    \/ FindMatches_page
    \/ FindBestMatch_p0

Spec == Init /\ [][Next]_vars

-----------------------------------------------------------------------------
(* The string functions as a state machine: two strings are drawn, then    *)
(* one function of one variant is applied to them.                         *)

MaxStringWords == 2

StringTokens == { Chars(w) : w \in {"Main", "mian", "Road", "St", "a-b", "#"} }

RECURSIVE stringTokenSequences(_)
stringTokenSequences(n) ==
    IF n = 0 THEN {<<>>}
    ELSE LET shorter == stringTokenSequences(n - 1)
         IN  shorter \cup { Append(ws, t) : ws \in {x \in shorter : Len(x) = n - 1},
                                             t \in StringTokens }

\* strings with white space at the ends and in runs, a tab, a line break,
\* upper case, an underscore, two street-type words at the end and CJK ideographs
SpecialStrings ==
    { <<" ">>,
      <<" ", "M", "a", "i", "n", " ", " ", "S", "t", "\t">>,
      <<"m", "a", "i", "n", "\n", "r", "o", "a", "d">>,
      <<"M", "_", "1">>,
      Chars("Main Street Road"),
      <<"U+4E2D", "U+6587">>,
      <<"U+4E2D", ",", " ", "U+6587", "U+4E2D">> }

Strings == { join(ws) : ws \in stringTokenSequences(MaxStringWords) } \cup SpecialStrings

\* the second argument: the strings of at most one token
SecondStrings == { join(ws) : ws \in stringTokenSequences(1) } \cup SpecialStrings

StringInit ==
    /\ string1 \in Strings
    /\ string2 \in SecondStrings
    /\ called = "none"
    /\ result = <<>>
    /\ csvData = <<>>
    /\ ocrText = <<>>
    /\ confidence = 0
    /\ rowArg = 0
    /\ pageUnused

CalculateSimilarity ==
    /\ called = "none"
    /\ called' = "calculateSimilarity"
    /\ result' = calculateSimilarity(string1, string2)
    /\ UNCHANGED <<csvData, ocrText, confidence, rowArg, stringVars, pageVars, cameraVars>>

CalculateSimilarity_page ==
    /\ called = "none"
    /\ called' = "calculateSimilarity_page"
    /\ result' = calculateSimilarity_page(string1, string2)
    /\ UNCHANGED <<csvData, ocrText, confidence, rowArg, stringVars, pageVars, cameraVars>>

CalculateSimilarity_p0 ==
    /\ called = "none"
    /\ called' = "calculateSimilarity_p0"
    /\ result' = calculateSimilarity_p0(string1, string2)
    /\ UNCHANGED <<csvData, ocrText, confidence, rowArg, stringVars, pageVars, cameraVars>>

NormalizeString ==
    /\ called = "none"
    /\ called' = "normalizeString"
    /\ result' = normalizeString(string1)
    /\ UNCHANGED <<csvData, ocrText, confidence, rowArg, stringVars, pageVars, cameraVars>>

NormalizeString_page ==
    /\ called = "none"
    /\ called' = "normalizeString_page"
    /\ result' = normalizeString_page(string1)
    /\ UNCHANGED <<csvData, ocrText, confidence, rowArg, stringVars, pageVars, cameraVars>>

RemoveAddressSuffixes ==
    /\ called = "none"
    /\ called' = "removeAddressSuffixes"
    /\ result' = removeAddressSuffixes(string1)
    /\ UNCHANGED <<csvData, ocrText, confidence, rowArg, stringVars, pageVars, cameraVars>>

FindBestSubstring ==
    /\ called = "none"
    /\ called' = "findBestSubstring"
    /\ result' = findBestSubstring(string1, string2)
    /\ UNCHANGED <<csvData, ocrText, confidence, rowArg, stringVars, pageVars, cameraVars>>

FindBestSubstring_page ==
    /\ called = "none"
    /\ called' = "findBestSubstring_page"
    /\ result' = findBestSubstring_page(string1, string2)
    /\ UNCHANGED <<csvData, ocrText, confidence, rowArg, stringVars, pageVars, cameraVars>>

StringNext ==
    \/ CalculateSimilarity
    \/ CalculateSimilarity_page
    \/ CalculateSimilarity_p0
    \/ NormalizeString
    \/ NormalizeString_page
    \/ RemoveAddressSuffixes
    \/ FindBestSubstring
    \/ FindBestSubstring_page

StringSpec == StringInit /\ [][StringNext]_vars

-----------------------------------------------------------------------------
(* The page component of src/unnamed/part_001 (src/app/page.tsx is the     *)
(* same in these handlers).  A render is the set of state values that the  *)
(* functions created by it close over: captureAndProcessOCR and the        *)
(* findMatches it calls read csvData, confidence and isProcessingOCR of    *)
(* the render that created them, not the current state.  Every state       *)
(* update is followed by a render before the next event is handled.        *)

MaxInFlight == 2

PageTables ==
    { <<[address |-> Chars("Main"), streetNumber |-> Chars("34")]>>,
      <<[address |-> Chars("Main rd"), streetNumber |-> Chars("34")],
        [address |-> Chars("Main")]>> }

\* what worker.recognize may resolve to
RecognizedTexts == { <<" ">>, Chars("34 Main") \o <<"\n">> }

RecognizedConfidences == {60, 90}

render(table, conf, processing) ==
    [csvData |-> table, confidence |-> conf, isProcessingOCR |-> processing]

\* the useEffect with dependencies [videoReady, isProcessingOCR, realTimeOCR]
\* registers the keydown handler of the new render when one of them changed
KeyEffect ==
    keyHandler' =
        IF <<videoReady', isProcessingOCR', realTimeOCR'>>
             # <<videoReady, isProcessingOCR, realTimeOCR>>
        THEN render(csvData', confidence', isProcessingOCR')
        ELSE keyHandler

\* the first render, and the cached table loaded by the mount effect
PageInit ==
    /\ csvData \in {<<>>} \cup PageTables
    /\ ocrText = <<>>
    /\ confidence = 0
    /\ matchResults = <<>>
    /\ isProcessingOCR = FALSE
    /\ realTimeOCR = FALSE
    /\ ocrInterval = <<>>
    /\ videoReady = FALSE
    /\ keyHandler = render(<<>>, 0, FALSE)
    /\ inFlight = <<>>
    /\ cameraUnused
    /\ called = "none"
    /\ rowArg = 0
    /\ result = <<>>
    /\ string1 = <<>>
    /\ string2 = <<>>

engineUnused == UNCHANGED <<called, rowArg, result, stringVars, cameraVars>>

\* handleFileUpload, when the file is parsed
HandleFileUpload(table) ==
    /\ csvData' = table
    /\ csvData # table
    /\ UNCHANGED <<ocrText, confidence, matchResults, isProcessingOCR, realTimeOCR,
                   ocrInterval, videoReady, inFlight>>
    /\ KeyEffect
    /\ engineUnused

\* the Clear Cache button
ClearCache ==
    /\ csvData # <<>>
    /\ csvData' = <<>>
    /\ UNCHANGED <<ocrText, confidence, matchResults, isProcessingOCR, realTimeOCR,
                   ocrInterval, videoReady, inFlight>>
    /\ KeyEffect
    /\ engineUnused

\* startCamera up to the onloadedmetadata of the video element
StartCamera ==
    /\ ~videoReady
    /\ videoReady' = TRUE
    /\ UNCHANGED <<csvData, ocrText, confidence, matchResults, isProcessingOCR,
                   realTimeOCR, ocrInterval, inFlight>>
    /\ KeyEffect
    /\ engineUnused

StopCamera ==
    /\ videoReady
    /\ ocrInterval' = <<>>
    /\ videoReady' = FALSE
    /\ realTimeOCR' = FALSE
    /\ UNCHANGED <<csvData, ocrText, confidence, matchResults, isProcessingOCR,
                   inFlight>>
    /\ KeyEffect
    /\ engineUnused

\* the Real-time button, enabled while videoReady
ToggleRealTimeOCR ==
    /\ videoReady
    /\ IF realTimeOCR
       THEN /\ ocrInterval' = <<>>
            /\ realTimeOCR' = FALSE
       ELSE /\ realTimeOCR' = TRUE
            /\ ocrInterval' = <<render(csvData, confidence, isProcessingOCR)>>
    /\ UNCHANGED <<csvData, ocrText, confidence, matchResults, isProcessingOCR,
                   videoReady, inFlight>>
    /\ KeyEffect
    /\ engineUnused

\* what the rest of captureAndProcessOCR reads of its render after the await
awaited(c) == [csvData |-> c.csvData, confidence |-> c.confidence]

\* captureAndProcessOCR up to its await, called by a function of render c
capture(c, isRealTime) ==
    /\ ~(isRealTime /\ c.isProcessingOCR)
    /\ Len(inFlight) < MaxInFlight
    /\ isProcessingOCR' = TRUE
    /\ inFlight' = Append(inFlight, awaited(c))
    /\ UNCHANGED <<csvData, ocrText, confidence, matchResults, realTimeOCR,
                   ocrInterval, videoReady>>
    /\ KeyEffect
    /\ engineUnused

\* the callback of setInterval fires
IntervalTick ==
    /\ ocrInterval # <<>>
    /\ capture(ocrInterval[1], TRUE)

\* the capture button, disabled while isProcessingOCR || realTimeOCR
CaptureButton ==
    /\ videoReady
    /\ ~isProcessingOCR
    /\ ~realTimeOCR
    /\ capture(render(csvData, confidence, isProcessingOCR), FALSE)

\* the space key, handled by the registered keydown handler
SpaceKey ==
    /\ videoReady
    /\ ~isProcessingOCR
    /\ ~realTimeOCR
    /\ capture(keyHandler, FALSE)

\* worker.recognize resolves for the awaited recognition j: the rest of
\* captureAndProcessOCR runs in the render of its caller
RecognizeResolves(j, text, conf) ==
    /\ j \in 1..Len(inFlight)
    /\ ocrText' = text
    /\ confidence' = conf
    /\ IF trim(text) # <<>> /\ Len(inFlight[j].csvData) > 0
       THEN matchResults' = findMatches(trim(text), inFlight[j].csvData,
                                        inFlight[j].confidence)
       ELSE UNCHANGED matchResults
    /\ isProcessingOCR' = FALSE
    /\ inFlight' = SubSeq(inFlight, 1, j - 1) \o SubSeq(inFlight, j + 1, Len(inFlight))
    /\ UNCHANGED <<csvData, realTimeOCR, ocrInterval, videoReady>>
    /\ KeyEffect
    /\ engineUnused

\* worker.recognize rejects: the catch logs, then setIsProcessingOCR(false)
RecognizeRejects(j) ==
    /\ j \in 1..Len(inFlight)
    /\ isProcessingOCR' = FALSE
    /\ inFlight' = SubSeq(inFlight, 1, j - 1) \o SubSeq(inFlight, j + 1, Len(inFlight))
    /\ UNCHANGED <<csvData, ocrText, confidence, matchResults, realTimeOCR,
                   ocrInterval, videoReady>>
    /\ KeyEffect
    /\ engineUnused

PageNext ==
    \/ \E table \in PageTables : HandleFileUpload(table)
    \/ ClearCache
    \/ StartCamera
    \/ StopCamera
    \/ ToggleRealTimeOCR
    \/ IntervalTick
    \/ CaptureButton
    \/ SpaceKey
    \/ \E j \in 1..MaxInFlight, text \in RecognizedTexts, conf \in RecognizedConfidences :
         RecognizeResolves(j, text, conf)
    \/ \E j \in 1..MaxInFlight : RecognizeRejects(j)

PageSpec == PageInit /\ [][PageNext]_vars

-----------------------------------------------------------------------------
(* The camera, the OCR worker and the real-time timer of the page          *)
(* component of src/unnamed/part_001, for a page without reference table:  *)
(* the camera start is followed through getUserMedia and the video events, *)
(* the worker through the effect that creates and terminates it, and a     *)
(* timer of setInterval lives apart from the state that holds its id.      *)

MaxStreamRequests == 1

MaxWorkerRequests == 2

MaxTimers == 2

unusedByCamera == UNCHANGED <<csvData, matchResults, called, rowArg, result, stringVars>>

\* the first render, the worker effect of the mount having called createWorker
CameraInit ==
    /\ csvData = <<>>
    /\ ocrText = <<>>
    /\ confidence = 0
    /\ matchResults = <<>>
    /\ isProcessingOCR = FALSE
    /\ realTimeOCR = FALSE
    /\ ocrInterval = <<>>
    /\ videoReady = FALSE
    /\ keyHandler = render(<<>>, 0, FALSE)
    /\ inFlight = <<>>
    /\ isCameraActive = FALSE
    /\ pendingCameraStart = FALSE
    /\ cameraStream = FALSE
    /\ streamRequests = 0
    /\ videoAttached = FALSE
    /\ ocrWorkerRef = "null"
    /\ workerRequests = 1
    /\ timers = {}
    /\ called = "none"
    /\ rowArg = 0
    /\ result = <<>>
    /\ string1 = <<>>
    /\ string2 = <<>>

\* the effect with dependency [cameraStream], when cameraStream has changed:
\* its cleanup terminates the worker of ocrWorkerRef.current and leaves the
\* reference, then initWorker calls createWorker
WorkerEffect ==
    /\ workerRequests < MaxWorkerRequests
    /\ ocrWorkerRef' = IF ocrWorkerRef = "null" THEN "null" ELSE "terminated"
    /\ workerRequests' = workerRequests + 1

\* createWorker resolves: ocrWorkerRef.current = the new worker
CreateWorkerResolves ==
    /\ workerRequests > 0
    /\ workerRequests' = workerRequests - 1
    /\ ocrWorkerRef' = "live"
    /\ UNCHANGED <<ocrText, confidence, isProcessingOCR, realTimeOCR, ocrInterval, videoReady,
                   inFlight, isCameraActive, pendingCameraStart, cameraStream, streamRequests,
                   videoAttached, timers>>
    /\ unusedByCamera
    /\ KeyEffect

\* the Start Camera button, shown while the camera view is not; the effect of
\* initCamera then calls getUserMedia unless a stream is held
StartCameraClick ==
    /\ ~isCameraActive
    /\ isCameraActive' = TRUE
    /\ pendingCameraStart' = TRUE
    /\ videoReady' = FALSE
    /\ IF cameraStream
       THEN UNCHANGED streamRequests
       ELSE /\ streamRequests < MaxStreamRequests
            /\ streamRequests' = streamRequests + 1
    /\ UNCHANGED <<ocrText, confidence, isProcessingOCR, realTimeOCR, ocrInterval, inFlight,
                   cameraStream, videoAttached, ocrWorkerRef, workerRequests, timers>>
    /\ unusedByCamera
    /\ KeyEffect

\* getUserMedia resolves: the stream is stored and, if the video element is
\* mounted, attached to it with the handlers of its events
GetUserMediaResolves ==
    /\ streamRequests > 0
    /\ streamRequests' = streamRequests - 1
    /\ cameraStream' = TRUE
    /\ videoAttached' = isCameraActive
    /\ pendingCameraStart' = FALSE
    /\ WorkerEffect
    /\ UNCHANGED <<ocrText, confidence, isProcessingOCR, realTimeOCR, ocrInterval, videoReady,
                   inFlight, isCameraActive, timers>>
    /\ unusedByCamera
    /\ KeyEffect

\* getUserMedia rejects: the catch of initCamera
GetUserMediaRejects ==
    /\ streamRequests > 0
    /\ streamRequests' = streamRequests - 1
    /\ isCameraActive' = FALSE
    /\ pendingCameraStart' = FALSE
    /\ videoAttached' = FALSE
    /\ UNCHANGED <<ocrText, confidence, isProcessingOCR, realTimeOCR, ocrInterval, videoReady,
                   inFlight, cameraStream, ocrWorkerRef, workerRequests, timers>>
    /\ unusedByCamera
    /\ KeyEffect

\* onloadedmetadata or oncanplay of the video element
OnLoadedMetadata ==
    /\ videoAttached
    /\ ~videoReady
    /\ videoReady' = TRUE
    /\ UNCHANGED <<ocrText, confidence, isProcessingOCR, realTimeOCR, ocrInterval, inFlight,
                   isCameraActive, pendingCameraStart, cameraStream, streamRequests,
                   videoAttached, ocrWorkerRef, workerRequests, timers>>
    /\ unusedByCamera
    /\ KeyEffect

\* a stop that forgets the id and leaves the timer
ClearInterval_timerKept ==
    /\ timers' = timers
    /\ ocrInterval' = <<>>

\* if (ocrInterval) { clearInterval(ocrInterval); setOcrInterval(null); }
ClearInterval ==
    /\ timers' = { t \in timers : <<t.id>> # ocrInterval }
    /\ ocrInterval' = <<>>

\* stopCamera, the Close button of the camera view
StopCameraClick ==
    /\ isCameraActive
    /\ IF cameraStream
       THEN cameraStream' = FALSE /\ WorkerEffect
       ELSE UNCHANGED <<cameraStream, ocrWorkerRef, workerRequests>>
    /\ ClearInterval
    /\ isCameraActive' = FALSE
    /\ videoReady' = FALSE
    /\ pendingCameraStart' = FALSE
    /\ realTimeOCR' = FALSE
    /\ videoAttached' = FALSE
    /\ UNCHANGED <<ocrText, confidence, isProcessingOCR, inFlight, streamRequests>>
    /\ unusedByCamera
    /\ KeyEffect

\* an id that setInterval has not handed out to a live timer or to the state
freshTimerId ==
    CHOOSE id \in 1..(MaxTimers + 1) : <<id>> # ocrInterval /\ \A t \in timers : t.id # id

\* toggleRealTimeOCR, the Real-time button of the camera view, enabled while videoReady
RealTimeClick ==
    /\ isCameraActive
    /\ videoReady
    /\ IF realTimeOCR
       THEN /\ ClearInterval
            /\ realTimeOCR' = FALSE
       ELSE IF ocrWorkerRef # "null"
       THEN /\ Cardinality(timers) < MaxTimers
            /\ realTimeOCR' = TRUE
            /\ timers' = timers \cup
                   {[id |-> freshTimerId,
                     closure |-> render(csvData, confidence, isProcessingOCR)]}
            /\ ocrInterval' = <<freshTimerId>>
       ELSE UNCHANGED <<realTimeOCR, timers, ocrInterval>>
    /\ UNCHANGED <<ocrText, confidence, isProcessingOCR, videoReady, inFlight, isCameraActive,
                   pendingCameraStart, cameraStream, streamRequests, videoAttached,
                   ocrWorkerRef, workerRequests>>
    /\ unusedByCamera
    /\ KeyEffect

\* the video element has a frame: video.videoWidth and video.videoHeight are
\* positive once the metadata of the attached stream are loaded
videoHasFrame == videoAttached /\ videoReady

\* captureAndProcessOCR of render c up to its await, or to its end when no
\* canvas context is to be had, or to the drawImage of the cropped canvas,
\* which stands before the try and may throw for a canvas without width and
\* height; a call that returns at once changes nothing
captureOfCamera(c, isRealTime) ==
    /\ isCameraActive
    /\ ocrWorkerRef # "null"
    /\ ~(isRealTime /\ c.isProcessingOCR)
    /\ \E ctx \in BOOLEAN, drawn \in BOOLEAN :
         /\ videoHasFrame => drawn
         /\ IF ~ctx
            THEN /\ isProcessingOCR' = FALSE
                 /\ UNCHANGED inFlight
            ELSE IF ~drawn
            THEN /\ isProcessingOCR' = TRUE
                 /\ UNCHANGED inFlight
            ELSE /\ Len(inFlight) < MaxInFlight
                 /\ isProcessingOCR' = TRUE
                 /\ inFlight' = Append(inFlight, [csvData |-> c.csvData,
                                                  confidence |-> c.confidence,
                                                  worker |-> ocrWorkerRef])
    /\ UNCHANGED <<ocrText, confidence, realTimeOCR, ocrInterval, videoReady, isCameraActive,
                   pendingCameraStart, cameraStream, streamRequests, videoAttached,
                   ocrWorkerRef, workerRequests, timers>>
    /\ unusedByCamera
    /\ KeyEffect

\* the callback of a live timer
TimerFires ==
    \E t \in timers : captureOfCamera(t.closure, TRUE)

\* the manual recognition button of the camera view
ManualClick ==
    /\ isCameraActive
    /\ ~isProcessingOCR
    /\ ~realTimeOCR
    /\ captureOfCamera(render(csvData, confidence, isProcessingOCR), FALSE)

\* the space key
KeyDown ==
    /\ videoReady
    /\ ~isProcessingOCR
    /\ ~realTimeOCR
    /\ captureOfCamera(keyHandler, FALSE)

withoutJob(j) == SubSeq(inFlight, 1, j - 1) \o SubSeq(inFlight, j + 1, Len(inFlight))

\* recognize of a live worker resolves
RecognizeReturns(j, text, conf) ==
    /\ j \in 1..Len(inFlight)
    /\ inFlight[j].worker = "live"
    /\ ocrText' = text
    /\ confidence' = conf
    /\ IF trim(text) # <<>> /\ Len(inFlight[j].csvData) > 0
       THEN matchResults' = findMatches(trim(text), inFlight[j].csvData,
                                        inFlight[j].confidence)
       ELSE UNCHANGED matchResults
    /\ isProcessingOCR' = FALSE
    /\ inFlight' = withoutJob(j)
    /\ UNCHANGED <<realTimeOCR, ocrInterval, videoReady, cameraVars>>
    /\ UNCHANGED <<csvData, called, rowArg, result, stringVars>>
    /\ KeyEffect

\* recognize rejects
RecognizeThrows(j) ==
    /\ j \in 1..Len(inFlight)
    /\ isProcessingOCR' = FALSE
    /\ inFlight' = withoutJob(j)
    /\ UNCHANGED <<ocrText, confidence, realTimeOCR, ocrInterval, videoReady, cameraVars>>
    /\ unusedByCamera
    /\ KeyEffect

recognizeSettles ==
    \E j \in 1..MaxInFlight :
        \/ RecognizeThrows(j)
        \/ \E text \in RecognizedTexts, conf \in RecognizedConfidences :
               RecognizeReturns(j, text, conf)

CameraNext ==
    \/ CreateWorkerResolves
    \/ StartCameraClick
    \/ GetUserMediaResolves
    \/ GetUserMediaRejects
    \/ OnLoadedMetadata
    \/ StopCameraClick
    \/ RealTimeClick
    \/ TimerFires
    \/ ManualClick
    \/ KeyDown
    \/ \E j \in 1..MaxInFlight, text \in RecognizedTexts, conf \in RecognizedConfidences :
           RecognizeReturns(j, text, conf)
    \/ \E j \in 1..MaxInFlight : RecognizeThrows(j)

CameraSpec == CameraInit /\ [][CameraNext]_vars

\* every call of recognize returns or throws
CameraLiveSpec == CameraSpec /\ WF_vars(recognizeSettles)

-----------------------------------------------------------------------------
(* findBestMatch of src/unnamed/part_001 step by step: called is the last   *)
(* section of the function that has run, result holds its local variables.  *)

\* what findMatches passes on: the texts of the engine that are not empty and
\* are trimmed, and texts whose words match a record's words without either
\* address containing the other
ScoreTexts ==
    { text \in QueryTexts : text # <<>> /\ trim(text) = text }
    \cup { Chars(w) : w \in {"zz glen Main", "glen Main glenn", "zz Main", "x", "x glen"} }

ScoreRecords ==
    Records \cup { [address |-> Chars("glen Main yy")],
                   [address |-> Chars("glen Main yy"), streetNumber |-> Chars("34")] }

\* let bestSimilarity = 0; const matchedFields = []; let matchedSegment = '';
\* and the scores, each declared with 0
locals ==
    [bestSimilarity |-> Zero, matchedFields |-> <<>>, matchedSegment |-> <<>>,
     numberMatchScore |-> Zero, addressMatchScore |-> Zero, fullMatchScore |-> Zero,
     isValidMatch |-> FALSE]

ScoreInit ==
    /\ csvData \in { <<r>> : r \in ScoreRecords }
    /\ ocrText \in ScoreTexts
    /\ confidence = 0
    /\ called = "none"
    /\ rowArg = 1
    /\ result = locals
    /\ string1 = <<>>
    /\ string2 = <<>>
    /\ pageUnused

\* if (!csvRow.address) return { similarity: 0, matchedFields: [], matchedSegment: '' }
ReturnWithoutAddress ==
    /\ called = "none"
    /\ ~truthy(csvData[rowArg], "address")
    /\ called' = "return"
    /\ UNCHANGED <<csvData, ocrText, confidence, rowArg, result, stringVars, pageVars, cameraVars>>

NumberMatchScore ==
    /\ called = "none"
    /\ truthy(csvData[rowArg], "address")
    /\ called' = "numberMatchScore"
    /\ result' = [result EXCEPT !.numberMatchScore = numberMatchScore(ocrText, csvData[rowArg])]
    /\ UNCHANGED <<csvData, ocrText, confidence, rowArg, stringVars, pageVars, cameraVars>>

AddressMatchScore ==
    /\ called = "numberMatchScore"
    /\ called' = "addressMatchScore"
    /\ result' = [result EXCEPT !.addressMatchScore = addressMatchScore(ocrText, csvData[rowArg])]
    /\ UNCHANGED <<csvData, ocrText, confidence, rowArg, stringVars, pageVars, cameraVars>>

FullMatchScore ==
    /\ called = "addressMatchScore"
    /\ called' = "fullMatchScore"
    /\ result' = [result EXCEPT !.fullMatchScore = fullMatchScore(ocrText, csvData[rowArg])]
    /\ UNCHANGED <<csvData, ocrText, confidence, rowArg, stringVars, pageVars, cameraVars>>

BestSimilarity ==
    /\ called = "fullMatchScore"
    /\ called' = "bestSimilarity"
    /\ result' = [result EXCEPT !.bestSimilarity =
                      compositeScore(result.numberMatchScore, result.addressMatchScore,
                                     result.fullMatchScore)]
    /\ UNCHANGED <<csvData, ocrText, confidence, rowArg, stringVars, pageVars, cameraVars>>

\* 7. the decision, the push to matchedFields, and the return
IsValidMatch ==
    /\ called = "bestSimilarity"
    /\ called' = "return"
    /\ LET valid == isValidMatch(ocrText, csvData[rowArg], result.numberMatchScore,
                                 result.addressMatchScore, result.fullMatchScore,
                                 result.bestSimilarity)
       IN  result' = [result EXCEPT !.isValidMatch = valid,
                                    !.matchedFields = IF valid THEN <<"streetAddress">> ELSE <<>>,
                                    !.matchedSegment = IF valid THEN ocrText ELSE <<>>]
    /\ UNCHANGED <<csvData, ocrText, confidence, rowArg, stringVars, pageVars, cameraVars>>

ScoreNext ==
    \/ ReturnWithoutAddress
    \/ NumberMatchScore
    \/ AddressMatchScore
    \/ FullMatchScore
    \/ BestSimilarity
    \/ IsValidMatch

ScoreSpec == ScoreInit /\ [][ScoreNext]_vars

-----------------------------------------------------------------------------
(* Properties                                                              *)

\* the text starts with a number and the row has another, all-digit, street number
numericMismatch(text, row) ==
    /\ ocrNumbers(text) # <<>>
    /\ isCSVNumberDigit(row)
    /\ ocrNumbers(text) # csvStreetNumber(row)

\* the text is the row's all-digit street number, one space, the row's address
exactQuery(text, row) ==
    /\ truthy(row, "address")
    /\ hasField(row, "streetNumber")
    /\ isAllDigits(row.streetNumber)
    /\ text = row.streetNumber \o <<" ">> \o row.address

\* the table rows of the entries of a findMatches result
returnedRows(matches) == { matches[k].rowIndex : k \in 1..Len(matches) }

\* C1: a row whose all-digit street number differs from the number the text
\* starts with gets number score 0.1, is rejected by findBestMatch whatever
\* its other scores, and is never returned by findMatches.
C1_NumericStreetNumberVeto ==
    /\ called = "findBestMatch" /\ numericMismatch(ocrText, csvData[rowArg])
         => /\ result.matchedFields = <<>>
            /\ truthy(csvData[rowArg], "address")
                 => numberMatchScore(ocrText, csvData[rowArg]) = R(1, 10)
    /\ called = "findMatches"
         => \A k \in 1..Len(result) : ~numericMismatch(ocrText, result[k].row)

C1_Witness ==
    /\ called = "findBestMatch"
    /\ numericMismatch(ocrText, csvData[rowArg])
    /\ truthy(csvData[rowArg], "address")
    /\ addressMatchScore(ocrText, csvData[rowArg]) = R(95, 100)
    /\ result.matchedFields = <<>>

\* C2: the text "N A" is accepted for the row with all-digit street number N
\* and address A, with similarity >= 0.9, and findMatches returns that row,
\* first when it is the only accepted one.
C2_ExactQueryAccepted ==
    /\ called = "findBestMatch" /\ exactQuery(ocrText, csvData[rowArg])
         => /\ result.matchedFields = <<"streetAddress">>
            /\ RGe(result.similarity, R(9, 10))
    /\ called = "findMatches"
         => \A i \in 1..Len(csvData) :
              exactQuery(ocrText, csvData[i])
                => /\ i \in returnedRows(result) \/ Len(result) = MaxResults
                   /\ Len(result) = 1 => result[1].rowIndex = i

C2_Witness ==
    /\ called = "findMatches"
    /\ Len(result) = 1
    /\ exactQuery(ocrText, csvData[1])
    /\ Len(csvData[1].address) >= 4
    /\ result[1].matchedFields = <<"streetAddress">>

\* C3 (as claimed): every entry a findMatches returns, in either variant, has a
\* non-empty matchedFields.
C3_ReturnedEntriesHaveMatchedFields ==
    called \in {"findMatches", "findMatches_page"}
      => \A k \in 1..Len(result) : result[k].matchedFields # <<>>

\* C4: findMatches never returns more than 8 entries.
C4_ResultBound ==
    called \in {"findMatches", "findMatches_page"} => Len(result) <= 8

C4_Witness ==
    /\ called = "findMatches"
    /\ Len(result) = 8
    /\ Len(collectMatches(ocrText, csvData, confidence, 1)) > 8

\* the result of a findMatches is the accepted list in ranking order: similarity
\* does not increase, equal similarities keep the table order, and what the
\* truncation dropped is no better than anything returned
rankingOrder(accepted, matches) ==
    /\ \A k \in 1..Len(matches) : \E a \in 1..Len(accepted) : accepted[a] = matches[k]
    /\ \A k \in 1..(Len(matches) - 1) :
         /\ RGe(matches[k].similarity, matches[k + 1].similarity)
         /\ matches[k].similarity = matches[k + 1].similarity
              => matches[k].rowIndex < matches[k + 1].rowIndex
    /\ \A a \in 1..Len(accepted) :
         accepted[a].rowIndex \notin returnedRows(matches)
           => /\ Len(matches) = MaxResults
              /\ \A k \in 1..Len(matches) :
                   RGe(matches[k].similarity, accepted[a].similarity)

\* C5: findMatches returns the accepted rows by non-increasing similarity, ties
\* in table order, and drops only rows no better than the returned ones.
C5_RankingOrder ==
    /\ called = "findMatches"
         => rankingOrder(collectMatches(ocrText, csvData, confidence, 1), result)
    /\ called = "findMatches_page"
         => rankingOrder(collectMatches_page(ocrText, csvData, confidence, 1), result)

C5_Witness ==
    /\ called = "findMatches"
    /\ Len(result) = MaxResults
    /\ Len(collectMatches(ocrText, csvData, confidence, 1)) > MaxResults
    /\ result[1].similarity # result[MaxResults].similarity
    /\ \E k \in 1..(MaxResults - 1) :
         /\ result[k].similarity = result[k + 1].similarity
         /\ result[k].row # result[k + 1].row

\* the text holds no letter, digit or CJK character: it is empty, blank or
\* made of punctuation and white space only
noSearchableCharacter(text) ==
    \A k \in 1..Len(text) :
        text[k] \notin (WordChars \ {"_"}) \cup CJKChars

\* C6 (as claimed): for a text without any letter, digit or CJK character
\* findMatches returns no entry and the single-best matcher returns null.
C6_MalformedQueryHasNoMatches ==
    noSearchableCharacter(ocrText)
      => /\ called = "findMatches" => result = <<>>
         /\ called = "findBestMatch_p0" => result = <<>>

\* C7: on an empty table findMatches returns the empty list and the single-best
\* matcher returns null, whatever the text.
C7_EmptyTableHasNoMatches ==
    csvData = <<>> /\ called \in {"findMatches", "findMatches_page", "findBestMatch_p0"}
      => result = <<>>

C7_Witness ==
    /\ csvData = <<>>
    /\ called = "findBestMatch_p0"
    /\ ~noSearchableCharacter(ocrText)
    /\ result = <<>>

\* the row with a streetNumber of "" added when it has none
withEmptyStreetNumber(row) ==
    [f \in DOMAIN row \cup {"streetNumber"} |->
        IF f \in DOMAIN row THEN row[f] ELSE <<>>]

\* C8: a row whose address is missing or empty gets similarity 0 and no matched
\* field, is never returned, and does not keep the other rows from being
\* scored; a missing streetNumber is read as the empty string.
C8_MissingAddressTolerated ==
    /\ called \in {"findBestMatch", "findBestMatch_page"}
         /\ ~truthy(csvData[rowArg], "address")
         => result = [similarity |-> Zero, matchedFields |-> <<>>, matchedSegment |-> <<>>]
    /\ called = "findBestMatch" /\ ~hasField(csvData[rowArg], "streetNumber")
         => result = findBestMatch(ocrText, withEmptyStreetNumber(csvData[rowArg]))
    /\ called \in {"findMatches", "findMatches_page"}
         => \A k \in 1..Len(result) : truthy(result[k].row, "address")
    /\ called = "findMatches"
         => \A i \in 1..Len(csvData) :
              findBestMatch(ocrText, csvData[i]).matchedFields # <<>>
                => i \in returnedRows(result) \/ Len(result) = MaxResults

C8_Witness ==
    /\ called = "findMatches"
    /\ Len(csvData) = 2
    /\ ~hasField(csvData[1], "address")
    /\ ~hasField(csvData[2], "streetNumber")
    /\ returnedRows(result) = {2}

\* the text starts with a number and the row has an all-digit street number
numericCase(text, row) ==
    /\ ocrNumbers(text) # <<>>
    /\ isCSVNumberDigit(row)

\* C9 (as claimed): with a number in the text and an all-digit street number a
\* row is accepted only if the numbers are equal strings and the address body
\* score is at least 0.7.
C9_NumericCaseNeedsAddressScore ==
    /\ called = "findBestMatch"
    /\ numericCase(ocrText, csvData[rowArg])
    /\ result.matchedFields # <<>>
    => /\ ocrNumbers(ocrText) = csvStreetNumber(csvData[rowArg])
       /\ RGe(addressMatchScore(ocrText, csvData[rowArg]), R(7, 10))

\* C9 (amended): with a number in the text and an all-digit street number a row
\* is accepted only if the numbers are equal strings and either the address
\* body score is at least 0.7 or the composite similarity is at least 0.75;
\* the address body score of an accepted row is then at least 0.51.
C9_NumericCaseNeedsAddressOrComposite ==
    /\ called = "findBestMatch"
    /\ numericCase(ocrText, csvData[rowArg])
    /\ result.matchedFields # <<>>
    => /\ ocrNumbers(ocrText) = csvStreetNumber(csvData[rowArg])
       /\ \/ RGe(addressMatchScore(ocrText, csvData[rowArg]), R(7, 10))
          \/ RGe(result.similarity, R(75, 100))
       /\ RGe(addressMatchScore(ocrText, csvData[rowArg]), R(51, 100))

C9_Witness ==
    /\ called = "findBestMatch"
    /\ numericCase(ocrText, csvData[rowArg])
    /\ result.matchedFields # <<>>
    /\ RLt(addressMatchScore(ocrText, csvData[rowArg]), R(7, 10))
    /\ RGe(result.similarity, R(75, 100))

\* C10: an accepted row has matchedFields <<"streetAddress">> and the whole text
\* as matchedSegment; a rejected row with an address has no matched field, an
\* empty matchedSegment and the composite score as similarity.
C10_MatchOutcomeShape ==
    called = "findBestMatch" /\ truthy(csvData[rowArg], "address")
      => LET s == findBestMatchScores(ocrText, csvData[rowArg])
         IN  IF s.isValidMatch
             THEN /\ result.matchedFields = <<"streetAddress">>
                  /\ result.matchedSegment = ocrText
             ELSE /\ result.matchedFields = <<>>
                  /\ result.matchedSegment = <<>>
                  /\ result.similarity =
                       compositeScore(s.numberMatchScore, s.addressMatchScore,
                                      s.fullMatchScore)

C10_Witness ==
    /\ called = "findBestMatch"
    /\ result.matchedFields = <<"streetAddress">>
    /\ result.matchedSegment = ocrText
    /\ ocrAddressPart(ocrText) # ocrText
    /\ ocrText # trim(ocrText) \/ ocrNumbers(ocrText) # <<>>

-----------------------------------------------------------------------------
(* Properties of the string functions                                      *)

similarityCalled ==
    called \in {"calculateSimilarity", "calculateSimilarity_page", "calculateSimilarity_p0"}

\* the two arguments as the called variant of calculateSimilarity normalizes them
cleanStr1 ==
    IF called = "calculateSimilarity" THEN normalizeString(string1)
    ELSE normalizeString_page(string1)

cleanStr2 ==
    IF called = "calculateSimilarity" THEN normalizeString(string2)
    ELSE normalizeString_page(string2)

\* C11: calculateSimilarity returns a value from 0 to 1, in every variant.
C11_Boundedness ==
    similarityCalled => RGe(result, Zero) /\ RGe(One, result)

C11_Witness ==
    /\ similarityCalled
    /\ RGt(result, Zero)
    /\ RLt(result, R(7, 10))

\* C12 (as claimed): for a non-empty string s, calculateSimilarity applied twice
\* to normalizeString(s) returns 1.
C12_Identity ==
    /\ called = "calculateSimilarity"
         /\ string1 = string2
         /\ (\E s \in Strings : s # <<>> /\ string1 = normalizeString(s))
         => result = One
    /\ called = "calculateSimilarity_page"
         /\ string1 = string2
         /\ (\E s \in Strings : s # <<>> /\ string1 = normalizeString_page(s))
         => result = One

\* C12 (amended): calculateSimilarity applied twice to the same string returns
\* 1 when that string still is non-empty after its normalization inside
\* calculateSimilarity.
C12_IdentityOfNonEmptyClean ==
    similarityCalled /\ string1 = string2 /\ cleanStr1 # <<>> => result = One

C12_Witness ==
    /\ called = "calculateSimilarity"
    /\ string1 = string2
    /\ string1 = normalizeString(string1)
    /\ Len(string1) > 1
    /\ result = One

\* C13: calculateSimilarity returns 0 whenever an argument normalizes to the
\* empty string, two identical such arguments included.
C13_EmptyStringZero ==
    similarityCalled /\ (cleanStr1 = <<>> \/ cleanStr2 = <<>>) => result = Zero

C13_Witness ==
    /\ similarityCalled
    /\ string1 = string2
    /\ string1 # <<>>
    /\ cleanStr1 = <<>>
    /\ result = Zero

\* C14 (as claimed): when normalizeString(a) is a substring of normalizeString(b),
\* calculateSimilarity(a, b) is at least 0.85.
C14_ContainmentMonotonicity ==
    similarityCalled /\ includes(cleanStr2, cleanStr1) => RGe(result, R(85, 100))

\* C14 (amended): when normalizeString(a) is a non-empty substring of
\* normalizeString(b), calculateSimilarity(a, b) is at least 0.85.
C14_NonEmptyContainment ==
    similarityCalled /\ cleanStr1 # <<>> /\ includes(cleanStr2, cleanStr1)
      => RGe(result, R(85, 100))

C14_Witness ==
    /\ similarityCalled
    /\ cleanStr1 # <<>>
    /\ cleanStr1 # cleanStr2
    /\ includes(cleanStr2, cleanStr1)
    /\ result = R(85, 100)

\* C15 (as claimed): normalizing the result of normalizeString again gives the
\* same string, in the spaced and in the compact variant.
C15_IdempotentNormalization ==
    /\ called = "normalizeString" => normalizeString(result) = result
    /\ called = "normalizeString_page" => normalizeString_page(result) = result

\* the tokens of the normalized address: its non-empty pieces between spaces
tokens(address) == SelectSeq(split(normalizeString(address)), LAMBDA w : Len(w) > 0)

\* all tokens but the last
front(words) == SubSeq(words, 1, Len(words) - 1)

properContainment ==
    /\ similarityCalled
    /\ cleanStr1 # <<>>
    /\ cleanStr2 # <<>>
    /\ cleanStr1 # cleanStr2
    /\ includes(cleanStr1, cleanStr2) \/ includes(cleanStr2, cleanStr1)

\* shorter.length / longer.length of two strings
lengthRatio(a, b) == IF Len(a) <= Len(b) THEN R(Len(a), Len(b)) ELSE R(Len(b), Len(a))

\* C20 (as claimed): a proper containment scores from 0.85 to 0.95, and higher
\* than every containment with a smaller length ratio.
C20_ContainmentByLengthRatio ==
    properContainment
      => /\ RGe(result, R(85, 100))
         /\ RGe(R(95, 100), result)
         /\ called = "calculateSimilarity_page"
              => \A t \in Strings :
                   /\ normalizeString_page(t) # <<>>
                   /\ normalizeString_page(t) # cleanStr2
                   /\ includes(cleanStr2, normalizeString_page(t))
                   /\ RLt(lengthRatio(normalizeString_page(t), cleanStr2),
                          lengthRatio(cleanStr1, cleanStr2))
                   => RLt(calculateSimilarity_page(t, string2), result)

\* C20 (amended): a proper containment scores exactly 0.85, whatever the
\* length ratio.
C20_ContainmentFlat ==
    properContainment => result = R(85, 100)

C20_Witness ==
    /\ properContainment
    /\ RLt(lengthRatio(cleanStr1, cleanStr2), R(1, 2))
    /\ result = R(85, 100)

-----------------------------------------------------------------------------
(* Properties of the page component, checked under PageSpec               *)

\* a match pass has stored its results in this step
matchPassStored == matchResults' # matchResults

\* C17: every MatchResult stored for a recognition attempt carries the OCR
\* confidence that the same attempt returned (the one stored with its text by
\* setConfidence), not that of an earlier attempt or the initial value.
C17_OriginatingConfidence ==
    [][matchPassStored =>
         \A k \in 1..Len(matchResults') :
             /\ matchResults'[k].ocrText = trim(ocrText')
             /\ matchResults'[k].confidence = confidence']_vars

\* C18: every match pass uses the table that is current when the pass runs,
\* also after an upload or Clear Cache that came after the start of the
\* real-time interval: what a pass stores are the matches of the recognized
\* text in the current csvData.
C18_TableLifecycle ==
    [][matchPassStored =>
         \E conf \in {0} \cup RecognizedConfidences :
             matchResults' = findMatches(trim(ocrText'), csvData, conf)]_vars

\* C19: at most one OCR recognition is in flight at any time, because an
\* interval tick that fires while a capture is being processed is skipped.
C19_SerializedRecognition == Len(inFlight) <= 1

\* the called variant of calculateSimilarity applied to the arguments exchanged
exchanged ==
    IF called = "calculateSimilarity" THEN calculateSimilarity(string2, string1)
    ELSE IF called = "calculateSimilarity_page" THEN calculateSimilarity_page(string2, string1)
    ELSE calculateSimilarity_p0(string2, string1)

\* C26: calculateSimilarity(a, b) = calculateSimilarity(b, a) for all strings a
\* and b, in every variant.
C26_Symmetry ==
    similarityCalled =>
        /\ result = exchanged
        /\ calculateLevenshteinDistance(cleanStr1, cleanStr2)
             = calculateLevenshteinDistance(cleanStr2, cleanStr1)

\* the edit distance and character overlap rule, on strings of different
\* lengths and different sets of characters
C26_Witness ==
    /\ similarityCalled
    /\ Len(cleanStr1) # Len(cleanStr2)
    /\ Cardinality(Range(cleanStr1)) # Cardinality(Range(cleanStr2))
    /\ result = weightedAverage(cleanStr1, cleanStr2)
    /\ RGt(result, Zero)
    /\ result \notin {One, R(85, 100), R(7, 10)}

-----------------------------------------------------------------------------
(* Properties of findBestSubstring, checked under StringSpec               *)

substringCalled == called \in {"findBestSubstring", "findBestSubstring_page"}

\* the normalization of the variant that was called
normalized(str) ==
    IF called = "findBestSubstring" THEN normalizeString(str) ELSE normalizeString_page(str)

contiguousSpan(span, text) ==
    \E from \in 0..Len(text), to \in 0..Len(text) :
        from <= to /\ span = substring(text, from, to)

\* C21: when the normalized needle occurs in the normalized haystack,
\* findBestSubstring returns a contiguous span of the original haystack whose
\* normalization equals the normalized needle, also when normalization deletes
\* or keeps characters before or inside the span; otherwise it returns the
\* empty string.
C21_EvidenceRoundTrip ==
    substringCalled =>
        IF includes(normalized(string1), normalized(string2))
        THEN /\ contiguousSpan(result, string1)
             /\ normalized(result) = normalized(string2)
        ELSE result = <<>>

-----------------------------------------------------------------------------
(* Properties of normalizeString, checked under StringSpec                 *)

lettersDigitsCJK == Range(LowerLetters) \cup DigitChars \cup CJKChars

noOuterWhitespace(s) ==
    s # <<>> => s[1] \notin WhitespaceChars /\ s[Len(s)] \notin WhitespaceChars

singleSpaces(s) ==
    \A i \in 1..Len(s) :
        /\ s[i] \in WhitespaceChars => s[i] = " "
        /\ i < Len(s) => ~(s[i] = " " /\ s[i + 1] = " ")

\* C22: normalizeString returns a string with no uppercase letter and no
\* leading or trailing whitespace, whose characters are only Latin letters,
\* decimal digits and CJK ideographs (compact variant), or additionally single
\* internal spaces, never two in a row, and hyphens (spaced variant).
C22_CanonicalForm ==
    /\ called = "normalizeString_page" =>
           \A i \in 1..Len(result) : result[i] \in lettersDigitsCJK
    /\ called = "normalizeString" =>
           /\ \A i \in 1..Len(result) : result[i] \in lettersDigitsCJK \cup {" ", "-"}
           /\ noOuterWhitespace(result)
           /\ singleSpaces(result)

-----------------------------------------------------------------------------
(* Properties of the scores of findBestMatch, checked under ScoreSpec      *)

inUnitInterval(x) == RGe(x, Zero) /\ RGe(One, x)

\* C23: for a record with a non-empty address the similarity that
\* findBestMatch returns is 0.4 * numberScore + 0.5 * addressBodyScore
\* + 0.1 * wholeStringScore, each of the three scores is in [0, 1], and so
\* is the similarity.
C23_CompositeSimilarity ==
    called \in {"bestSimilarity", "return"} /\ truthy(csvData[rowArg], "address")
      => /\ result.bestSimilarity =
              RAdd(RAdd(RMul(R(4, 10), result.numberMatchScore),
                        RMul(R(5, 10), result.addressMatchScore)),
                   RMul(R(1, 10), result.fullMatchScore))
         /\ inUnitInterval(result.numberMatchScore)
         /\ inUnitInterval(result.addressMatchScore)
         /\ inUnitInterval(result.fullMatchScore)
         /\ inUnitInterval(result.bestSimilarity)
         /\ result.bestSimilarity = findBestMatch(ocrText, csvData[rowArg]).similarity

C23_Witness ==
    /\ called = "return"
    /\ truthy(csvData[rowArg], "address")
    /\ result.numberMatchScore = R(1, 10)
    /\ result.addressMatchScore = R(95, 100)
    /\ RGt(result.fullMatchScore, Zero)
    /\ RLt(result.fullMatchScore, R(9, 10))

numberScored ==
    /\ called \in {"numberMatchScore", "addressMatchScore", "fullMatchScore",
                   "bestSimilarity", "return"}
    /\ truthy(csvData[rowArg], "address")

ocrHasNumber == ocrNumbers(ocrText) # <<>>

recordNumber == csvStreetNumber(csvData[rowArg])

recordIsNumeric == recordNumber # <<>> /\ isAllDigits(recordNumber)

recordIsText == recordNumber # <<>> /\ ~isAllDigits(recordNumber)

\* the words of the normalized text that have at least minLength characters
wordsOfText(minLength) ==
    SelectSeq(split(normalizeString(ocrText)), LAMBDA w : Len(w) >= minLength)

prefixContainment ==
    \/ includes(normalizeString(ocrText), normalizeString(recordNumber))
    \/ includes(normalizeString(recordNumber), normalizeString(ocrText))

\* the six cases of the table
numberCases ==
    << ocrHasNumber /\ recordIsNumeric,
       ocrHasNumber /\ recordIsText,
       ~ocrHasNumber /\ recordIsText,
       ~ocrHasNumber /\ recordNumber = <<>>,
       ocrHasNumber /\ recordNumber = <<>>,
       ~ocrHasNumber /\ recordIsNumeric >>

numberScoreTable(words) ==
    IF numberCases[1] THEN (IF ocrNumbers(ocrText) = recordNumber THEN One ELSE R(1, 10))
    ELSE IF numberCases[2] THEN R(7, 10)
    ELSE IF numberCases[3]
    THEN IF words # <<>> /\ RGe(calculateSimilarity(words[1], normalizeString(recordNumber)),
                               R(8, 10))
         THEN R(95, 100)
         ELSE IF prefixContainment THEN R(8, 10) ELSE R(4, 10)
    ELSE IF numberCases[4] THEN One
    ELSE IF numberCases[5] THEN R(5, 10)
    ELSE R(3, 10)

\* C24 (as claimed): the number score is 1.0 or 0.1 when both sides are numeric,
\* 0.7 for a leading number against a text prefix, 0.95, 0.8 or 0.4 for no
\* leading number against a text prefix (first word of the text similar to the
\* prefix / containment either way / neither), 1.0 when neither side has a
\* number, 0.5 when only the text has one, 0.3 otherwise; exactly one case applies.
C24_NumberScoreTable ==
    numberScored =>
        /\ result.numberMatchScore = numberScoreTable(wordsOfText(1))
        /\ Cardinality({ k \in 1..6 : numberCases[k] }) = 1

\* C24 (amended): the same table, where the word compared with the text prefix
\* is the first word of at least two characters of the normalized text.
C24_NumberScoreTableOfLongWords ==
    numberScored =>
        /\ result.numberMatchScore = numberScoreTable(wordsOfText(2))
        /\ Cardinality({ k \in 1..6 : numberCases[k] }) = 1

C24_Witness ==
    /\ numberScored
    /\ numberCases[3]
    /\ wordsOfText(2) # <<>>
    /\ wordsOfText(1)[1] # wordsOfText(2)[1]
    /\ result.numberMatchScore = R(95, 100)

addressScored ==
    /\ called \in {"addressMatchScore", "fullMatchScore", "bestSimilarity", "return"}
    /\ truthy(csvData[rowArg], "address")

\* the text after its leading number, or the whole text if nothing is left
target == IF ocrAddressPart(ocrText) # <<>> THEN ocrAddressPart(ocrText) ELSE ocrText

filteredTarget == removeAddressSuffixes(target)

filteredAddress == removeAddressSuffixes(csvData[rowArg].address)

tokensOf(filtered) == SelectSeq(split(filtered), LAMBDA w : Len(w) >= 2)

matchedTokens ==
    Cardinality({ i \in 1..Len(tokensOf(filteredTarget)) :
                    \E j \in 1..Len(tokensOf(filteredAddress)) :
                        RGe(calculateSimilarity(tokensOf(filteredTarget)[i],
                                                tokensOf(filteredAddress)[j]), R(8, 10)) })

pairAt(words, i) == words[i] \o <<" ">> \o words[i + 1]

matchingAdjacentPairs ==
    Cardinality({ ij \in (1..(Len(tokensOf(filteredTarget)) - 1))
                           \X (1..(Len(tokensOf(filteredAddress)) - 1)) :
                    RGe(calculateSimilarity(pairAt(tokensOf(filteredTarget), ij[1]),
                                            pairAt(tokensOf(filteredAddress), ij[2])),
                        R(9, 10)) })

\* 0 when the target has no token
tokenScore ==
    IF tokensOf(filteredTarget) = <<>> THEN Zero
    ELSE RMin(R(95, 100),
              RAdd(RMul(R(85, 100), R(matchedTokens, Len(tokensOf(filteredTarget)))),
                   RMul(R(3, 10), R(matchingAdjacentPairs, 1))))

fallbackScore ==
    RMul(R(7, 10),
         calculateSimilarity(normalizeString(target), normalizeString(csvData[rowArg].address)))

noContainment ==
    /\ ~includes(filteredAddress, filteredTarget)
    /\ ~includes(filteredTarget, filteredAddress)

\* C25: the address body score is 0.95 when the suffix-filtered target is
\* contained in the suffix-filtered record address, 0.9 for the reverse
\* containment, and otherwise min(0.95, 0.85 * matchedTokens / ocrTokens
\* + 0.3 * matchingAdjacentPairs) over the tokens of length >= 2 (0 without such
\* a token), replaced by 0.7 * calculateSimilarity of the unfiltered normalized
\* strings when the token score is below 0.6 and the fallback is larger; it
\* never exceeds 0.95.
C25_AddressBodyScore ==
    addressScored =>
        /\ result.addressMatchScore =
              IF includes(filteredAddress, filteredTarget) THEN R(95, 100)
              ELSE IF includes(filteredTarget, filteredAddress) THEN R(9, 10)
              ELSE IF RLt(tokenScore, R(6, 10)) /\ RGt(fallbackScore, tokenScore)
                   THEN fallbackScore
                   ELSE tokenScore
        /\ RGe(R(95, 100), result.addressMatchScore)

\* the token score is capped: every token matched and a matching adjacent pair
C25_Witness ==
    /\ addressScored
    /\ noContainment
    /\ matchedTokens = Len(tokensOf(filteredTarget))
    /\ matchingAdjacentPairs >= 1
    /\ result.addressMatchScore = R(95, 100)

\* the token score below 0.6 replaced by the larger fallback
C25_WitnessFallback ==
    /\ addressScored
    /\ noContainment
    /\ RLt(tokenScore, R(6, 10))
    /\ RGt(tokenScore, Zero)
    /\ result.addressMatchScore = fallbackScore
    /\ RGt(fallbackScore, tokenScore)

-----------------------------------------------------------------------------
(* Further properties of the page component, checked under PageSpec        *)

\* C27: whenever the reference table is empty, never uploaded or cleared, the
\* displayed list of match results is empty.
C27_EmptyTableEmptyDisplay == csvData = <<>> => matchResults = <<>>

-----------------------------------------------------------------------------
(* Properties of the camera, the worker and the timer, checked under       *)
(* CameraSpec                                                              *)

\* the one timer that is live is the one whose id the state holds
timerOfState ==
    /\ Cardinality(timers) = 1
    /\ \A t \in timers : ocrInterval = <<t.id>>

\* C28: after any sequence of Start Camera, Real-time and Close clicks a
\* periodic timer is live if and only if the real-time mode is on, at most one
\* timer is live, and a Close click or a stop of the real-time mode leaves no
\* timer, so that no periodic capture fires after it.
C28_TimerConsistency ==
    /\ [](realTimeOCR <=> timers # {})
    /\ [](Cardinality(timers) <= 1)
    /\ [](realTimeOCR => timerOfState)
    /\ [][StopCameraClick => timers' = {}]_vars
    /\ [][RealTimeClick /\ realTimeOCR => timers' = {}]_vars

\* the real-time mode is on and a capture of its timer awaits its recognition
C28_Witness ==
    /\ realTimeOCR
    /\ timerOfState
    /\ inFlight # <<>>
    /\ \A t \in timers : ~t.closure.isProcessingOCR

\* C29: captureAndProcessOCR never calls recognize on a terminated worker: in
\* every interleaving of worker initialisation, camera start and stop and
\* capture triggers, each recognition that is awaited was called on a worker
\* that was live at the call.
C29_WorkerLiveAtUse ==
    \A j \in 1..Len(inFlight) : inFlight[j].worker = "live"

\* C30: every capture that sets the processing flag sets it back: whenever
\* isProcessingOCR is true it is false again later, given that every call of
\* recognize returns or throws, so that the manual recognition is not disabled
\* for ever.
C30_FlagReleased == isProcessingOCR ~> ~isProcessingOCR

=============================================================================
